---- MODULE Spec2Model ----
(***************************************************************************)
(* kairos-cli: the Bubble Tea application loop of src/main.go (the last    *)
(* revision in that file, lines 1158-2222).  The model value `m` is owned  *)
(* by the event loop; every tea.Cmd runs in its own goroutine and hands    *)
(* its result back as a message.  Commands in flight are kept in `cmds`,   *)
(* messages not yet handed to Update in `msgs`.                            *)
(***************************************************************************)
EXTENDS Integers, Sequences, FiniteSets, TLC

\* ------------------------------------------------------------------ bounds
MaxReq == 2          \* terminate / restart key presses that dispatch a request
MaxListEvents == 2   \* refetch-key presses plus steps of the backend in a run
MaxAttempt == 1      \* largest attempt number of a pending activity
MaxToken == 1        \* largest page token the backend hands out
MaxEvents == 3       \* longest history handed to createCompactHistory
MaxDepth == 2        \* focus frames on the stack plus pushes in flight
\* calls of createCompactHistory on the same history and pending activities
MaxRuns == 2
\* values accepted for one search mode
MaxValues == 2
\* whole days between the earliest and the latest instant of a month
MaxDays == 31

\* ------------------------------------------------------------- vocabulary
Ids == {"a", "b"}                       \* workflow (execution) ids on the backend
RunOf(id) == IF id = "a" THEN "run-a" ELSE "run-b"

NO_FLOW_RUNNING == "NO_FLOW_RUNNING"
AWAITING_CONFIRMATION == "AWAITING_CONFIRMATION"
EXECUTING_ACTION == "EXECUTING_ACTION"
ACTION_COMPLETED == "ACTION_COMPLETED"
confirmationFlowStateEnums ==
    {NO_FLOW_RUNNING, AWAITING_CONFIRMATION, EXECUTING_ACTION, ACTION_COMPLETED}

\* log.Fatalf messages: the process exits with the message as its last word
FatalList == "Failed to list workflows"
FatalTerminate == "Failed to terminate workflow"
FatalRestart == "Failed to restart workflow"
FatalHistory == "Failed to get workflow history"
FatalNoEvent == "Failed to find eventId to restart workflow"
FatalMessages == {FatalList, FatalTerminate, FatalRestart, FatalHistory, FatalNoEvent}

VARIABLES
    proc,                \* "running", "quit", or the log.Fatalf message the process died with
    cfState,             \* m.confirmationFlowState.state
    cfBound,             \* m.confirmationFlowState: the texts and commandThatRunsOnConfirmation
    workflows,           \* m.workflows: the rows, in order
    cursor,              \* m.cursor (0-based)
    page,                \* m.page
    nextPageTokenCache,  \* m.nextPageTokenCache: page index -> token (0 is the empty token)
    backend,             \* the Temporal service: id -> [ver, closed, pending]
    msgs,                \* results of commands not yet applied by Update
    cmds,                \* commands dispatched and still running (goroutines, timers)
    nextReq,             \* history: id the next destructive request gets
    reqMadeIn,           \* history: request -> phase the key was pressed in
    answered,            \* history: request -> "none" | "y" | "n"
    invoked,             \* history: request -> number of calls of its bound action
    returned,            \* history: request -> number of those calls that came back (nil or error)
    refetches,           \* history: full refetches dispatched by a key press so far
    refetched,           \* history: id -> version the last applied full refetch delivered (-1: none)
    parentWorkflowMode,  \* m.parentWorkflowMode
    focusStack,          \* m.focusedWorkflowState.compactedHistoryStack
    focusCursor,         \* m.focusedWorkflowState.cursor
    upToDateWorkflowCount, \* m.upToDateWorkflowCount: status -> count
    historyList,         \* createCompactHistory: its first argument
    pendingActivities,   \* createCompactHistory: its second argument
    compaction,          \* createCompactHistory: the pass in progress and the outcomes so far
    activeSearchParams,  \* m.activeSearchParams: search mode -> accepted values
    queryString,         \* the return value of the last constructQueryString
    searchMode,          \* m.searchMode ("": the search input is blurred)
    timeDiff,            \* getRelativeTimeDiff: its arguments and its return value
    resetRequest,        \* the ResetWorkflowExecution requests restart has sent
    actedOn              \* history: request -> the row its key was pressed on, the execution its call names

cfVars == <<cfState, cfBound>>
listVars == <<workflows, cursor, page, nextPageTokenCache>>
reqVars == <<nextReq, reqMadeIn, answered, invoked, returned>>
navVars == <<parentWorkflowMode, focusStack, focusCursor>>
compactVars == <<historyList, pendingActivities, compaction>>
queryVars == <<activeSearchParams, queryString, searchMode>>
callVars == <<timeDiff, resetRequest, actedOn>>
restVars == <<navVars, upToDateWorkflowCount, compactVars, queryVars, callVars>>
vars == <<proc, cfState, cfBound, workflows, cursor, page, nextPageTokenCache,
          backend, msgs, cmds, nextReq, reqMadeIn, answered, invoked, returned,
          refetches, refetched, parentWorkflowMode, focusStack, focusCursor,
          upToDateWorkflowCount, historyList, pendingActivities, compaction,
          activeSearchParams, queryString, searchMode, timeDiff, resetRequest, actedOn>>

Reqs == 1..MaxReq

\* the bound part of a confirmationFlowStateMsg: the three texts and the
\* closure are all determined by (kind, workflowId, runId); req tells two
\* closures built by two key presses apart
NoBound == [req |-> 0, kind |-> "none", wf |-> "", run |-> ""]

\* a workflow.WorkflowExecutionInfo as the backend reports it: the execution
\* (id, run), and ver / closed standing for status and close time
Info(id, b) == [id |-> id, run |-> RunOf(id), ver |-> b[id].ver, closed |-> b[id].closed]

\* workflowTableListItem as refetchWorkflowsCmd builds it
Row(info) == [workflow |-> info, attempts |-> 0]

\* the row lists a ListWorkflow call can return: any order, no id twice
RowIdLists ==
    {<<>>} \cup {<<i>> : i \in Ids} \cup {<<p[1], p[2]>> : p \in {q \in Ids \X Ids : q[1] # q[2]}}

\* the executions a query with or without the parents-only clause matches:
\* "b" is the child of "a"
Matching(parent) == IF parent THEN {"a"} ELSE Ids

IdsOf(rows) == {rows[i].workflow.id : i \in 1..Len(rows)}

\* the version rows shows for id (-1: no row of that id)
VerIn(rows, id) ==
    IF id \in IdsOf(rows)
    THEN rows[CHOOSE i \in 1..Len(rows) : rows[i].workflow.id = id].workflow.ver
    ELSE -1

\* ------------------------------------------------------ history compaction
\* EventType.String(), word by word
T_WorkflowExecutionStarted == <<"Workflow", "Execution", "Started">>
T_WorkflowExecutionCompleted == <<"Workflow", "Execution", "Completed">>
T_WorkflowExecutionSignaled == <<"Workflow", "Execution", "Signaled">>
T_WorkflowTaskScheduled == <<"Workflow", "Task", "Scheduled">>
T_WorkflowTaskStarted == <<"Workflow", "Task", "Started">>
T_WorkflowTaskCompleted == <<"Workflow", "Task", "Completed">>
T_WorkflowTaskTimedOut == <<"Workflow", "Task", "Timed", "Out">>
T_WorkflowTaskFailed == <<"Workflow", "Task", "Failed">>
T_ActivityTaskScheduled == <<"Activity", "Task", "Scheduled">>
T_ActivityTaskStarted == <<"Activity", "Task", "Started">>
T_ActivityTaskCompleted == <<"Activity", "Task", "Completed">>
T_ActivityTaskFailed == <<"Activity", "Task", "Failed">>
T_ActivityTaskTimedOut == <<"Activity", "Task", "Timed", "Out">>
T_ActivityTaskCancelRequested == <<"Activity", "Task", "Cancel", "Requested">>
T_ActivityTaskCanceled == <<"Activity", "Task", "Canceled">>
T_TimerStarted == <<"Timer", "Started">>
T_TimerFired == <<"Timer", "Fired">>
T_TimerCanceled == <<"Timer", "Canceled">>
T_StartChildWorkflowExecutionInitiated ==
    <<"Start", "Child", "Workflow", "Execution", "Initiated">>
T_ChildWorkflowExecutionStarted == <<"Child", "Workflow", "Execution", "Started">>
T_ChildWorkflowExecutionCompleted == <<"Child", "Workflow", "Execution", "Completed">>
T_ChildWorkflowExecutionFailed == <<"Child", "Workflow", "Execution", "Failed">>
T_MarkerRecorded == <<"Marker", "Recorded">>

\* the cases of the switch that create a record under the event's own id
OpeningTypes ==
    {T_ActivityTaskScheduled, T_TimerStarted, T_StartChildWorkflowExecutionInitiated,
     T_WorkflowExecutionStarted, T_WorkflowExecutionCompleted, T_WorkflowExecutionSignaled}
\* the cases of the switch that look a record up by a back-reference
ContinuationTypes ==
    {T_ActivityTaskStarted, T_ActivityTaskCompleted, T_ActivityTaskFailed,
     T_ActivityTaskTimedOut, T_ActivityTaskCancelRequested, T_ActivityTaskCanceled,
     T_TimerFired, T_TimerCanceled, T_ChildWorkflowExecutionStarted,
     T_ChildWorkflowExecutionCompleted, T_ChildWorkflowExecutionFailed}
WorkflowTaskTypes ==
    {T_WorkflowTaskScheduled, T_WorkflowTaskStarted, T_WorkflowTaskCompleted,
     T_WorkflowTaskTimedOut, T_WorkflowTaskFailed}
\* the event types that reach the default case
DefaultTypes == WorkflowTaskTypes \cup {T_MarkerRecorded}
EventTypes == OpeningTypes \cup ContinuationTypes \cup DefaultTypes

\* the types whose case reads the input or result payloads of the event
PayloadTypes ==
    {T_ActivityTaskScheduled, T_StartChildWorkflowExecutionInitiated,
     T_WorkflowExecutionStarted, T_WorkflowExecutionCompleted,
     T_ActivityTaskCompleted, T_ChildWorkflowExecutionCompleted}

\* a history.HistoryEvent: ref is the scheduled / started / initiated event
\* id of its attributes (0: the type has none), data its first payload
\* ("": GetPayloads() is nil), name its activity id, timer id, signal or
\* workflow type name, child the execution a child-started event names
HistoryEvent(id, type, ref, data, name, child) ==
    [id |-> id, type |-> type, ref |-> ref, data |-> data, name |-> name, child |-> child]

\* a Contains that finds nothing
ContainsNothing(s, sub) == FALSE

\* strings.Contains on the words of a name
Contains(s, sub) ==
    \E i \in 1..(Len(s) - Len(sub) + 1) : SubSeq(s, i, i + Len(sub) - 1) = sub

\* convertDataToPrettyJSON: the payload re-indented
convertDataToPrettyJSON(data) == <<"indented", data>>

eventContent(eventType, eventData) == [eventType |-> eventType, eventData |-> eventData]

\* &compactHistoryListItem{events: make(...)}
NewItem == [events |-> <<>>, eventsContent |-> <<>>, icon |-> "", actionType |-> <<>>,
            rowContent |-> [name |-> "", attempt |-> 0]]

\* rowContent: a name, followed by the retry mark and strconv.Itoa(attempt)
\* when attempt is not 0
RowContent(name, attempt) == [name |-> name, attempt |-> attempt]

\* the first pending activity whose activity id is the scheduled event's
PendingMatches(ev, pending) ==
    {i \in 1..Len(pending) : pending[i].activityId = ev.name}
\* a lookup that also consults how often the frame was compacted before
FirstPendingOfRun(ev, pending) ==
    LET matches == PendingMatches(ev, pending)
    IN  IF matches = {} \/ compaction.run > 1 THEN <<>>
        ELSE <<pending[CHOOSE i \in matches : \A j \in matches : i <= j]>>

\* a lookup that takes the first pending activity, whatever its id
FirstPendingAny(ev, pending) == IF pending = <<>> THEN <<>> ELSE <<pending[1]>>

FirstPending(ev, pending) ==
    LET matches == PendingMatches(ev, pending)
    IN  IF matches = {} THEN <<>>
        ELSE <<pending[CHOOSE i \in matches : \A j \in matches : i <= j]>>

InputBlock(ev) ==
    IF ev.data # "" THEN <<eventContent("Input", convertDataToPrettyJSON(ev.data))>> ELSE <<>>
OutputBlock(ev) ==
    IF ev.data # "" THEN <<eventContent("Output", convertDataToPrettyJSON(ev.data))>> ELSE <<>>

\* the icon a continuation case sets
ContinuationIcon(type) ==
    CASE type = T_ActivityTaskStarted -> "runner"
      [] type = T_ActivityTaskCompleted -> "check"
      [] type = T_ActivityTaskFailed -> "cross"
      [] type = T_ActivityTaskTimedOut -> "alarm"
      [] type = T_ActivityTaskCancelRequested -> "no-entry"
      [] type = T_ActivityTaskCanceled -> "no-entry"
      [] type = T_TimerFired -> "fire"
      [] type = T_TimerCanceled -> "no-entry"
      [] type = T_ChildWorkflowExecutionStarted -> "runner-baby"
      [] type = T_ChildWorkflowExecutionCompleted -> "check-baby"
      [] type = T_ChildWorkflowExecutionFailed -> "cross-baby"

\* the continuation cases that append the event to the record's events
AppendingTypes == ContinuationTypes \ {T_ChildWorkflowExecutionFailed}

\* the content block a continuation case appends
ContinuationBlocks(ev) ==
    IF ev.type \in {T_ActivityTaskCompleted, T_ChildWorkflowExecutionCompleted}
    THEN OutputBlock(ev) ELSE <<>>

\* a case faults when it indexes the first payload of nil payloads
\* (activity completed) or writes through the nil item of a missing key
Faults(ch, ev) ==
    \/ ev.type = T_ActivityTaskCompleted /\ ev.data = ""
    \/ ev.type \in ContinuationTypes /\ ev.ref \notin DOMAIN ch

\* the item an opening case stores under the event's id
OpeningItem(ev, pending) ==
    CASE ev.type = T_ActivityTaskScheduled ->
            LET p == FirstPending(ev, pending)
            IN  [events |-> <<ev>>,
                 eventsContent |->
                    (IF p # <<>> THEN <<eventContent("Last Error", <<"cause", p[1].cause>>)>>
                     ELSE <<>>) \o InputBlock(ev),
                 icon |-> "calendar",
                 actionType |-> <<"Activity">>,
                 rowContent |-> RowContent(ev.name, IF p # <<>> THEN p[1].attempt ELSE 0)]
      [] ev.type = T_TimerStarted ->
            [NewItem EXCEPT !.events = <<ev>>, !.icon = "alarm", !.actionType = <<"Timer">>,
                            !.rowContent = RowContent(ev.name, 0)]
      [] ev.type = T_StartChildWorkflowExecutionInitiated ->
            [NewItem EXCEPT !.events = <<ev>>, !.eventsContent = InputBlock(ev),
                            !.icon = "baby-runner", !.actionType = <<"Child", "Workflow">>,
                            !.rowContent = RowContent(ev.name, 0)]
      [] ev.type = T_WorkflowExecutionStarted ->
            [NewItem EXCEPT !.events = <<ev>>, !.eventsContent = InputBlock(ev),
                            !.icon = "rocket", !.actionType = ev.type,
                            !.rowContent = RowContent("Workflow started", 0)]
      [] ev.type = T_WorkflowExecutionCompleted ->
            [NewItem EXCEPT !.events = <<ev>>, !.eventsContent = OutputBlock(ev),
                            !.icon = "check", !.actionType = ev.type]
      [] ev.type = T_WorkflowExecutionSignaled ->
            [NewItem EXCEPT !.events = <<ev>>, !.icon = "wireless", !.actionType = ev.type,
                            !.rowContent = RowContent(ev.name, 0)]

\* a continuation case that puts its event in front of the record's events
ContinuedItemInFront(item, ev) ==
    [item EXCEPT !.icon = ContinuationIcon(ev.type),
                 !.events = IF ev.type \in AppendingTypes THEN <<ev>> \o @ ELSE @,
                 !.eventsContent = @ \o ContinuationBlocks(ev)]

\* the item a continuation case leaves under the back-reference
ContinuedItem(item, ev) ==
    [item EXCEPT !.icon = ContinuationIcon(ev.type),
                 !.events = IF ev.type \in AppendingTypes THEN Append(@, ev) ELSE @,
                 !.eventsContent = @ \o ContinuationBlocks(ev)]

\* the default case
DefaultItem(ev) == [NewItem EXCEPT !.events = <<ev>>, !.actionType = ev.type]

\* compactedHistory[key] = item
Put(ch, key, item) == (key :> item) @@ ch

\* one pass of the loop of createCompactHistory over the event ev
CompactEvent(ch, ev, pending) ==
    CASE ev.type \in OpeningTypes -> Put(ch, ev.id, OpeningItem(ev, pending))
      [] ev.type \in ContinuationTypes -> Put(ch, ev.ref, ContinuedItem(ch[ev.ref], ev))
      [] OTHER ->
            IF ev.id \notin DOMAIN ch /\ ~Contains(ev.type, <<"Workflow", "Task">>)
            THEN Put(ch, ev.id, DefaultItem(ev))
            ELSE ch

\* make(compactedHistory)
EmptyHistory == [k \in {} |-> NewItem]

\* createCompactHistory: the loop over historyList from event i on;
\* ok is FALSE when a case faulted
RECURSIVE CompactFrom(_, _, _, _)
CompactFrom(ch, list, pending, i) ==
    IF i > Len(list) THEN [ok |-> TRUE, compactHistory |-> ch]
    ELSE IF Faults(ch, list[i]) THEN [ok |-> FALSE, compactHistory |-> EmptyHistory]
    ELSE CompactFrom(CompactEvent(ch, list[i], pending), list, pending, i + 1)

createCompactHistory(list, pending) == CompactFrom(EmptyHistory, list, pending, 1)

\* ------------------------------------------- histories handed to compaction
\* the name an event of a type carries: activity id, timer id, signal name
\* or workflow type name
NameOf(type) ==
    CASE type = T_ActivityTaskScheduled -> "act"
      [] type = T_TimerStarted -> "timer"
      [] type = T_WorkflowExecutionSignaled -> "signal"
      [] type = T_StartChildWorkflowExecutionInitiated -> "ChildType"
      [] OTHER -> ""

\* the types whose attributes carry a failure; no case reads it
FailureTypes == {T_ActivityTaskFailed, T_ChildWorkflowExecutionFailed}

\* the first payload an event of a type can carry ("": no payloads), for a
\* failed event its failure
DataOf(type) == IF type \in PayloadTypes \cup FailureTypes THEN {"", "{}"} ELSE {""}

\* what an event is apart from its id: a type, for a continuation a
\* back-reference, and a payload or none
EventShapes ==
    {[type |-> t, ref |-> 0, data |-> d] :
        t \in OpeningTypes \cup DefaultTypes, d \in {"", "{}"}}
    \cup {[type |-> t, ref |-> r, data |-> d] :
        t \in ContinuationTypes, r \in 1..(MaxEvents - 1), d \in {"", "{}"}}

ShapeOk(sh) == sh.data \in DataOf(sh.type)

\* a history with the shapes shs: event ids ascend from 1
HistoryOf(shs) ==
    [i \in 1..Len(shs) |->
        HistoryEvent(i, shs[i].type, shs[i].ref, shs[i].data, NameOf(shs[i].type),
                     IF shs[i].type = T_ChildWorkflowExecutionStarted THEN "b" ELSE "")]

Histories ==
    {HistoryOf(shs) :
        shs \in UNION {[1..n -> {sh \in EventShapes : ShapeOk(sh)}] : n \in 0..MaxEvents}}

\* workflow.PendingActivityInfo
PendingActivityInfo(activityId, attempt) ==
    [activityId |-> activityId, attempt |-> attempt, cause |-> "last failure"]

\* a pending activity of another activity id, as the snapshot of an
\* execution with several activities holds
OtherPending == PendingActivityInfo("other", MaxAttempt + 1)

PendingSnapshots ==
    {<<>>, <<OtherPending>>}
    \cup {<<PendingActivityInfo("act", n)>> : n \in 1..MaxAttempt}
    \cup {<<OtherPending, PendingActivityInfo("act", n)>> : n \in 1..MaxAttempt}

\* ------------------------------------------------------------------ Init
\* initialModel, then Init: tea.Sequence(refetchWorkflowsCmd, tea.Batch(...)).
\* The batch is started once the refetch result has been handed to Update.
InitialRefetch ==
    [type |-> "refetchWorkflowsCmd", rid |-> 0, init |-> TRUE, page |-> 0,
     cache |-> (0 :> 0), live |-> TRUE, parent |-> FALSE]

\* the statuses renderHeader shows a count for
temporalEnumStatusList == {"Running", "Completed", "Failed", "Canceled", "Terminated"}

\* the statuses initialModel enters into upToDateWorkflowCount
InitialCountStatuses == {"Completed", "Running", "Failed", "Canceled"}

initialModel ==
    /\ cfState = NO_FLOW_RUNNING
    /\ cfBound = NoBound
    /\ workflows = <<>>
    /\ cursor = 0
    /\ page = 0
    /\ nextPageTokenCache = (0 :> 0)
    /\ parentWorkflowMode = FALSE
    /\ focusStack = <<>>
    /\ focusCursor = 0
    /\ upToDateWorkflowCount = [s \in InitialCountStatuses |-> 0]

\* no compaction pass is running
NoCompaction ==
    [run |-> 0, pos |-> 0, status |-> "idle", compactHistory |-> EmptyHistory,
     outcomes |-> <<>>]

\* the program as main starts it
InitProgram ==
    /\ proc = "running"
    /\ initialModel
    /\ backend = [id \in Ids |-> [ver |-> 0, closed |-> FALSE, pending |-> <<>>]]
    /\ msgs = {}
    /\ cmds = {InitialRefetch}
    /\ nextReq = 1
    /\ reqMadeIn = [r \in Reqs |-> "none"]
    /\ answered = [r \in Reqs |-> "none"]
    /\ invoked = [r \in Reqs |-> 0]
    /\ returned = [r \in Reqs |-> 0]
    /\ refetches = 0
    /\ refetched = [id \in Ids |-> -1]

\* initialModel: every search mode with no value; nothing rendered yet
InitialSearchParams ==
    [mode \in {"WorkflowType", "WorkflowId", "ExecutionStatus"} |-> <<>>]

\* getRelativeTimeDiff has not been called: no text yet
NotCalled == <<>>

\* no key pressed for a request, no backend call made for it
NoExecution == [pressed |-> <<>>, called |-> <<>>]

\* nothing called yet, no reset request sent
NoCalls ==
    /\ timeDiff = [t1 |-> [sec |-> 0, loc |-> "UTC"], t2 |-> [sec |-> 0, loc |-> "UTC"],
                   text |-> NotCalled]
    /\ resetRequest = <<>>
    /\ actedOn = [r \in Reqs |-> NoExecution]

\* the search input as textinput.New() leaves it: blurred
SearchBlurred == searchMode = ""

Init ==
    /\ InitProgram
    /\ historyList = <<>>
    /\ pendingActivities = <<>>
    /\ compaction = NoCompaction
    /\ activeSearchParams = InitialSearchParams
    /\ queryString = <<>>
    /\ SearchBlurred
    /\ NoCalls

\* --------------------------------------------------- captured model copies
\* A command closes over a copy of the model.  The copy's slice and map
\* headers still point at the loop's rows and token cache until the loop
\* replaces them, so a copy marked live sees the loop's in-place writes.
IsRefetchCmd(c) == c.type = "refetchWorkflowsCmd"
IsStatusCmd(c) == c.type = "updateVisibleWorkflowsBackgroundCmd"
IsAttemptsCmd(c) == c.type = "updateVisibleWorkflowAttempsBackgroundCmd"
ReadsRows(c) == IsStatusCmd(c) \/ IsAttemptsCmd(c)

\* what the two background commands read of the rows they captured: each
\* row's workflow id and whether its close time is set
Seen(rows) ==
    [i \in 1..Len(rows) |-> [id |-> rows[i].workflow.id, closed |-> rows[i].workflow.closed]]

\* the loop wrote the token cache in place
ShareCache(cs, cache) ==
    {IF IsRefetchCmd(c) /\ c.live THEN [c EXCEPT !.cache = cache] ELSE c : c \in cs}
\* the loop replaced the token cache by a new map
DetachCache(cs) ==
    {IF IsRefetchCmd(c) THEN [c EXCEPT !.live = FALSE] ELSE c : c \in cs}
\* the loop wrote row items in place
ShareRows(cs, rows) ==
    {IF ReadsRows(c) /\ c.live THEN [c EXCEPT !.rows = Seen(rows)] ELSE c : c \in cs}
\* the loop replaced the row slice
DetachRows(cs) ==
    {IF ReadsRows(c) THEN [c EXCEPT !.live = FALSE] ELSE c : c \in cs}

\* ------------------------------------------------------ confirmation flow
RowAtCursor == workflows[cursor + 1]

\* terminateWorkflowCmd / restartWorkflowCmd: the returned command only
\* builds the AWAITING_CONFIRMATION message around the action closure
RequestMsg(kind, row, req) ==
    [type |-> "confirmationFlowStateMsg", state |-> AWAITING_CONFIRMATION,
     bound |-> [req |-> req, kind |-> kind, wf |-> row.workflow.id, run |-> row.workflow.run]]

\* Update, tea.KeyMsg, keys.TerminateWorkflow / keys.RestartWorkflow.  The
\* y/n test above it lets every other key through whatever the phase is.
KeyDestructive(kind) ==
    /\ proc = "running"
    /\ SearchBlurred
    /\ nextReq <= MaxReq
    /\ IF cursor < Len(workflows)
       THEN /\ msgs' = msgs \cup {RequestMsg(kind, RowAtCursor, nextReq)}
            /\ nextReq' = nextReq + 1
            /\ reqMadeIn' = [reqMadeIn EXCEPT ![nextReq] = cfState]
            /\ actedOn' = [actedOn EXCEPT ![nextReq].pressed =
                              <<RowAtCursor.workflow.id, RowAtCursor.workflow.run>>]
       ELSE UNCHANGED <<msgs, nextReq, reqMadeIn, actedOn>>
    /\ UNCHANGED <<proc, cfVars, listVars, backend, cmds, answered, invoked,
                   returned, refetches, refetched>>
    /\ UNCHANGED <<navVars, upToDateWorkflowCount, compactVars, queryVars, timeDiff,
                   resetRequest>>

KeyTerminateWorkflow == KeyDestructive("terminate")
KeyRestartWorkflow == KeyDestructive("restart")

\* Update, tea.KeyMsg "y" in AWAITING_CONFIRMATION: wrappedFunc is dispatched
KeyYes ==
    /\ proc = "running"
    /\ cfState = AWAITING_CONFIRMATION
    /\ cfState' = EXECUTING_ACTION
    /\ cmds' = cmds \cup {[type |-> "wrappedFunc", bound |-> cfBound, stage |-> "queued"]}
    /\ answered' = [answered EXCEPT ![cfBound.req] = "y"]
    /\ UNCHANGED <<proc, cfBound, listVars, backend, msgs, nextReq, reqMadeIn,
                   invoked, returned, refetches, refetched>>
    /\ UNCHANGED restVars

\* a slip the "n" branch could make: clearing the phase but still handing
\* wrappedFunc to the runtime
KeyNoStillDispatches ==
    /\ proc = "running"
    /\ cfState = AWAITING_CONFIRMATION
    /\ cfState' = NO_FLOW_RUNNING
    /\ cmds' = cmds \cup {[type |-> "wrappedFunc", bound |-> cfBound, stage |-> "queued"]}
    /\ answered' = [answered EXCEPT ![cfBound.req] = "n"]
    /\ UNCHANGED <<proc, cfBound, listVars, backend, msgs, nextReq, reqMadeIn,
                   invoked, returned, refetches, refetched>>
    /\ UNCHANGED restVars

\* Update, tea.KeyMsg "n" in AWAITING_CONFIRMATION
KeyNo ==
    /\ proc = "running"
    /\ cfState = AWAITING_CONFIRMATION
    /\ cfState' = NO_FLOW_RUNNING
    /\ answered' = [answered EXCEPT ![cfBound.req] = "n"]
    /\ UNCHANGED <<proc, cfBound, listVars, backend, msgs, cmds, nextReq, reqMadeIn,
                   invoked, returned, refetches, refetched>>
    /\ UNCHANGED restVars

\* a slip wrappedFunc could make: starting the action without waiting for
\* it, and reporting ACTION_COMPLETED at once
InvokeActionWithoutWaiting(c) ==
    /\ proc = "running"
    /\ c.type = "wrappedFunc" /\ c.stage = "queued"
    /\ cmds' = (cmds \ {c}) \cup {[c EXCEPT !.stage = "called"]}
    /\ msgs' = msgs \cup {[type |-> "confirmationFlowStateMsg",
                            state |-> ACTION_COMPLETED, bound |-> c.bound]}
    /\ invoked' = [invoked EXCEPT ![c.bound.req] = @ + 1]
    /\ actedOn' = [actedOn EXCEPT ![c.bound.req].called = <<c.bound.wf, c.bound.run>>]
    /\ UNCHANGED <<proc, cfVars, listVars, backend, nextReq, reqMadeIn,
                   answered, returned, refetches, refetched>>
    /\ UNCHANGED <<navVars, upToDateWorkflowCount, compactVars, queryVars, timeDiff,
                   resetRequest>>

\* a slip the closure could make: naming the row under the cursor of the
\* moment it runs instead of the ids it was built with
InvokeActionAtCursor(c) ==
    /\ proc = "running"
    /\ c.type = "wrappedFunc" /\ c.stage = "queued"
    /\ cmds' = (cmds \ {c}) \cup {[c EXCEPT !.stage = "called"]}
    /\ invoked' = [invoked EXCEPT ![c.bound.req] = @ + 1]
    /\ actedOn' = [actedOn EXCEPT ![c.bound.req].called =
                      IF cursor < Len(workflows)
                      THEN <<RowAtCursor.workflow.id, RowAtCursor.workflow.run>>
                      ELSE <<"", "">>]
    /\ UNCHANGED <<proc, cfVars, listVars, backend, msgs, nextReq, reqMadeIn,
                   answered, returned, refetches, refetched>>
    /\ UNCHANGED <<navVars, upToDateWorkflowCount, compactVars, queryVars, timeDiff,
                   resetRequest>>

\* wrappedFunc calls m.confirmationFlowState.commandThatRunsOnConfirmation():
\* the closure of terminateWorkflowCmd / restartWorkflowCmd starts its backend
\* call, which names the workflowId and runId the closure was built with
InvokeAction(c) ==
    /\ proc = "running"
    /\ c.type = "wrappedFunc" /\ c.stage = "queued"
    /\ cmds' = (cmds \ {c}) \cup {[c EXCEPT !.stage = "called"]}
    /\ invoked' = [invoked EXCEPT ![c.bound.req] = @ + 1]
    /\ actedOn' = [actedOn EXCEPT ![c.bound.req].called = <<c.bound.wf, c.bound.run>>]
    /\ UNCHANGED <<proc, cfVars, listVars, backend, msgs, nextReq, reqMadeIn,
                   answered, returned, refetches, refetched>>
    /\ UNCHANGED <<navVars, upToDateWorkflowCount, compactVars, queryVars, timeDiff,
                   resetRequest>>

\* the backend call came back with err == nil: the closure returns nil and
\* wrappedFunc returns its copy of the flow state as ACTION_COMPLETED
ActionReturns(c) ==
    /\ proc = "running"
    /\ c.type = "wrappedFunc" /\ c.stage = "called"
    /\ cmds' = cmds \ {c}
    /\ msgs' = msgs \cup {[type |-> "confirmationFlowStateMsg",
                            state |-> ACTION_COMPLETED, bound |-> c.bound]}
    /\ returned' = [returned EXCEPT ![c.bound.req] = @ + 1]
    /\ UNCHANGED <<proc, cfVars, listVars, backend, nextReq, reqMadeIn,
                   answered, invoked, refetches, refetched>>
    /\ UNCHANGED restVars

\* the backend call came back with an error: log.Fatalf ends the process,
\* and with it every goroutine and every message not yet delivered
ActionFatalMessages(kind) ==
    IF kind = "terminate" THEN {FatalTerminate} ELSE {FatalHistory, FatalNoEvent, FatalRestart}

ActionFails(c) ==
    /\ proc = "running"
    /\ c.type = "wrappedFunc" /\ c.stage = "called"
    /\ proc' \in ActionFatalMessages(c.bound.kind)
    /\ returned' = [returned EXCEPT ![c.bound.req] = @ + 1]
    /\ cmds' = {} /\ msgs' = {}
    /\ UNCHANGED <<cfVars, listVars, backend, nextReq, reqMadeIn, answered,
                   invoked, refetches, refetched>>
    /\ UNCHANGED restVars

\* clearListState
clearListStateCache == (0 :> 0)

\* Update, case confirmationFlowStateMsg
ApplyConfirmationFlowStateMsg(msg) ==
    /\ proc = "running"
    /\ msg \in msgs /\ msg.type = "confirmationFlowStateMsg"
    /\ msgs' = msgs \ {msg}
    /\ cfState' = msg.state
    /\ cfBound' = msg.bound
    /\ IF msg.state = ACTION_COMPLETED
       THEN /\ page' = 0
            /\ cursor' = 0
            /\ nextPageTokenCache' = clearListStateCache
            /\ cmds' = DetachCache(cmds) \cup {[type |-> "clearCompletionCmd", bound |-> msg.bound]}
       ELSE UNCHANGED <<page, cursor, nextPageTokenCache, cmds>>
    /\ UNCHANGED <<proc, workflows, backend, reqVars, refetches, refetched>>
    /\ UNCHANGED restVars

\* clearCompletionCmd: the 3 s tick fires and returns the captured flow
\* state with state = NO_FLOW_RUNNING
ClearCompletionTick(c) ==
    /\ proc = "running"
    /\ c.type = "clearCompletionCmd"
    /\ cmds' = cmds \ {c}
    /\ msgs' = msgs \cup {[type |-> "confirmationFlowStateMsg",
                            state |-> NO_FLOW_RUNNING, bound |-> c.bound]}
    /\ UNCHANGED <<proc, cfVars, listVars, backend, reqVars, refetches, refetched>>
    /\ UNCHANGED restVars

\* snapshots the service has produced so far
Advances(b) == b["a"].ver + b["b"].ver

\* ------------------------------------------------------------ full refetch
\* m.refetchWorkflowsCmd() as Update returns it: the closure holds a pointer
\* to the model Update is about to return, so it reads the page and the
\* parents-only mode as the key press left them, and the token cache
\* through the map the loop keeps writing
RefetchCmd(pg, parent) ==
    [type |-> "refetchWorkflowsCmd", rid |-> refetches + 1, init |-> FALSE, page |-> pg,
     cache |-> nextPageTokenCache, live |-> TRUE, parent |-> parent]

\* Update, tea.KeyMsg, keys.RefetchWorkflows
KeyRefetchWorkflows ==
    /\ proc = "running"
    /\ SearchBlurred
    /\ refetches + Advances(backend) < MaxListEvents
    /\ refetches' = refetches + 1
    /\ cmds' = cmds \cup {RefetchCmd(page, parentWorkflowMode)}
    /\ UNCHANGED <<proc, cfVars, listVars, backend, msgs, reqVars, refetched>>
    /\ UNCHANGED restVars

\* Update, tea.KeyMsg, keys.NextPage
KeyNextPage ==
    /\ proc = "running"
    /\ SearchBlurred
    /\ refetches + Advances(backend) < MaxListEvents
    /\ refetches' = refetches + 1
    /\ page' = page + 1
    /\ cmds' = cmds \cup {RefetchCmd(page', parentWorkflowMode)}
    /\ UNCHANGED <<proc, cfVars, workflows, cursor, nextPageTokenCache, backend, msgs,
                   reqVars, refetched>>
    /\ UNCHANGED restVars

\* Update, tea.KeyMsg, keys.PrevPage
KeyPrevPage ==
    /\ proc = "running"
    /\ SearchBlurred
    /\ refetches + Advances(backend) < MaxListEvents
    /\ refetches' = refetches + 1
    /\ page' = IF page > 0 THEN page - 1 ELSE page
    /\ cmds' = cmds \cup {RefetchCmd(page', parentWorkflowMode)}
    /\ UNCHANGED <<proc, cfVars, workflows, cursor, nextPageTokenCache, backend, msgs,
                   reqVars, refetched>>
    /\ UNCHANGED restVars

\* Update, tea.KeyMsg, keys.ToggleParentWorkflowMode
KeyToggleParentWorkflowMode ==
    /\ proc = "running"
    /\ SearchBlurred
    /\ refetches + Advances(backend) < MaxListEvents
    /\ refetches' = refetches + 1
    /\ parentWorkflowMode' = ~parentWorkflowMode
    /\ cmds' = cmds \cup {RefetchCmd(page, parentWorkflowMode')}
    /\ UNCHANGED <<proc, cfVars, listVars, backend, msgs, reqVars, refetched>>
    /\ UNCHANGED <<focusStack, focusCursor, upToDateWorkflowCount, compactVars, queryVars, callVars>>

\* m.nextPageTokenCache[m.page] as the command reads it when it runs
TokenSent(c) == IF c.page \in DOMAIN c.cache THEN c.cache[c.page] ELSE 0

\* the NextPageToken of a ListWorkflow answer: the backend holds pages
\* 0..MaxToken of results; the last page's token is empty
NextToken(token) == IF token < MaxToken THEN token + 1 ELSE 0

\* history: the ListWorkflowExecutionsRequest a result answers: the page
\* index the command read, the token it sent, and whether the token was in
\* the cache, and the parents-only clause of its query
RequestOf(c) ==
    [page |-> c.page, token |-> TokenSent(c), cached |-> c.page \in DOMAIN c.cache,
     parent |-> c.parent]

\* refetchWorkflowsCmd: ListWorkflow answered
RunRefetch(c) ==
    /\ proc = "running"
    /\ IsRefetchCmd(c)
    /\ \E ids \in {l \in RowIdLists : \A i \in 1..Len(l) : l[i] \in Matching(c.parent)} :
          msgs' = msgs \cup {[type |-> "updateWorkflowsMsg", rid |-> c.rid, init |-> c.init,
                                workflows |-> [i \in 1..Len(ids) |-> Row(Info(ids[i], backend))],
                                nextPageToken |-> NextToken(TokenSent(c)),
                                request |-> RequestOf(c)]}
    /\ cmds' = cmds \ {c}
    /\ UNCHANGED <<proc, cfVars, listVars, backend, reqVars, refetches, refetched>>
    /\ UNCHANGED restVars

\* refetchWorkflowsCmd: ListWorkflow failed
RefetchFails(c) ==
    /\ proc = "running"
    /\ IsRefetchCmd(c)
    /\ proc' = FatalList
    /\ cmds' = {} /\ msgs' = {}
    /\ UNCHANGED <<cfVars, listVars, backend, reqVars, refetches, refetched>>
    /\ UNCHANGED restVars

\* the Go runtime's report of an unsynchronised map access
FatalMapAccess == "fatal error: concurrent map read and map write"

\* the loop writes m.nextPageTokenCache[m.page+1] while the goroutine of a
\* refetch command reads the same map: the runtime may catch the two in
\* the act and end the process
MapAccessFault(c, msg) ==
    /\ proc = "running"
    /\ IsRefetchCmd(c) /\ c.live
    /\ msg \in msgs /\ msg.type = "updateWorkflowsMsg"
    /\ proc' = FatalMapAccess
    /\ cmds' = {} /\ msgs' = {}
    /\ UNCHANGED <<cfVars, listVars, backend, reqVars, refetches, refetched>>
    /\ UNCHANGED restVars

\* ------------------------------------------------------------ count syncs
FatalCount == "Failed to count workflows"

\* the statuses Init starts a count chain and a first count for
BackgroundCountStatuses == {"Completed", "Running", "Failed", "Terminated"}

\* the status of an execution on the backend
StatusOf(b, id) == IF b[id].closed THEN "Completed" ELSE "Running"

\* CountWorkflow for the query of the model the command closed over
CountOf(status, parent, b) ==
    Cardinality({id \in Matching(parent) : StatusOf(b, id) = status})

\* m.backgroundUpdateWorkflowCountCmd(status): a 5 s tick around one count
CountTickCmd(status, parent) ==
    [type |-> "backgroundUpdateWorkflowCountCmd", executionStatus |-> status,
     parent |-> parent]
\* m.refetchWorkflowCountCmd(status)
CountFetchCmd(status, parent) ==
    [type |-> "refetchWorkflowCountCmd", executionStatus |-> status, parent |-> parent]
IsCountTickCmd(c) == c.type = "backgroundUpdateWorkflowCountCmd"
IsCountFetchCmd(c) == c.type = "refetchWorkflowCountCmd"

\* backgroundUpdateWorkflowCountCmd: the tick fired and the count came back
RunCountTick(c) ==
    /\ proc = "running"
    /\ IsCountTickCmd(c)
    /\ msgs' = msgs \cup {[type |-> "backgroundUpdateWorkflowCountMsg",
                            executionStatus |-> c.executionStatus,
                            count |-> CountOf(c.executionStatus, c.parent, backend)]}
    /\ cmds' = cmds \ {c}
    /\ UNCHANGED <<proc, cfVars, listVars, backend, reqVars, refetches, refetched>>
    /\ UNCHANGED restVars

\* refetchWorkflowCountCmd: the count came back
RunCountFetch(c) ==
    /\ proc = "running"
    /\ IsCountFetchCmd(c)
    /\ msgs' = msgs \cup {[type |-> "updateWorkflowCountMsg",
                            executionStatus |-> c.executionStatus,
                            count |-> CountOf(c.executionStatus, c.parent, backend)]}
    /\ cmds' = cmds \ {c}
    /\ UNCHANGED <<proc, cfVars, listVars, backend, reqVars, refetches, refetched>>
    /\ UNCHANGED restVars

\* either count command: CountWorkflow failed
CountFails(c) ==
    /\ proc = "running"
    /\ IsCountTickCmd(c) \/ IsCountFetchCmd(c)
    /\ proc' = FatalCount
    /\ cmds' = {} /\ msgs' = {}
    /\ UNCHANGED <<cfVars, listVars, backend, reqVars, refetches, refetched>>
    /\ UNCHANGED restVars

\* a slip the first count's case could make: arming the chain's tick too
ApplyUpdateWorkflowCountMsgRearms(msg) ==
    /\ proc = "running"
    /\ msg \in msgs /\ msg.type = "updateWorkflowCountMsg"
    /\ msgs' = msgs \ {msg}
    /\ upToDateWorkflowCount' = (msg.executionStatus :> msg.count) @@ upToDateWorkflowCount
    /\ cmds' = cmds \cup {CountTickCmd(msg.executionStatus, parentWorkflowMode)}
    /\ UNCHANGED <<proc, cfVars, listVars, backend, reqVars, refetches, refetched>>
    /\ UNCHANGED <<navVars, compactVars, queryVars, callVars>>

\* Update, case updateWorkflowCountMsg
ApplyUpdateWorkflowCountMsg(msg) ==
    /\ proc = "running"
    /\ msg \in msgs /\ msg.type = "updateWorkflowCountMsg"
    /\ msgs' = msgs \ {msg}
    /\ upToDateWorkflowCount' = (msg.executionStatus :> msg.count) @@ upToDateWorkflowCount
    /\ UNCHANGED <<proc, cfVars, listVars, backend, cmds, reqVars, refetches, refetched>>
    /\ UNCHANGED <<navVars, compactVars, queryVars, callVars>>

\* Update, case backgroundUpdateWorkflowCountMsg
ApplyBackgroundUpdateWorkflowCountMsg(msg) ==
    /\ proc = "running"
    /\ msg \in msgs /\ msg.type = "backgroundUpdateWorkflowCountMsg"
    /\ msgs' = msgs \ {msg}
    /\ upToDateWorkflowCount' = (msg.executionStatus :> msg.count) @@ upToDateWorkflowCount
    /\ cmds' = cmds \cup {CountTickCmd(msg.executionStatus, parentWorkflowMode)}
    /\ UNCHANGED <<proc, cfVars, listVars, backend, reqVars, refetches, refetched>>
    /\ UNCHANGED <<navVars, compactVars, queryVars, callVars>>

\* Init's tea.Batch: the status chain closes over the model as Init got it
\* (no rows), the attempts chain over Init's model by pointer, whose rows
\* refetchWorkflowsCmd has set to the slice it returned
InitBatch(rows) ==
    {[type |-> "updateVisibleWorkflowsBackgroundCmd", rows |-> <<>>, live |-> FALSE],
     [type |-> "updateVisibleWorkflowAttempsBackgroundCmd", rows |-> Seen(rows), live |-> TRUE]}
    \cup {CountTickCmd(s, FALSE) : s \in BackgroundCountStatuses}
    \cup {CountFetchCmd(s, FALSE) : s \in BackgroundCountStatuses}

\* Update, case updateWorkflowsMsg
ApplyUpdateWorkflowsMsg(msg) ==
    /\ proc = "running"
    /\ msg \in msgs /\ msg.type = "updateWorkflowsMsg"
    /\ msgs' = msgs \ {msg}
    /\ workflows' = msg.workflows
    /\ nextPageTokenCache' = ((page + 1) :> msg.nextPageToken) @@ nextPageTokenCache
    /\ cmds' = ShareCache(DetachRows(cmds), nextPageTokenCache')
                 \cup (IF msg.init THEN InitBatch(msg.workflows) ELSE {})
    /\ refetched' = [id \in Ids |-> VerIn(msg.workflows, id)]
    /\ UNCHANGED <<proc, cfVars, cursor, page, backend, reqVars, refetches>>
    /\ UNCHANGED restVars

\* --------------------------------------------------------- background sync
\* currentRunningExecutionIds: the captured rows whose close time is nil
RunningIds(seen) == {seen[i].id : i \in {j \in 1..Len(seen) : ~seen[j].closed}}
SeenIds(seen) == {seen[i].id : i \in 1..Len(seen)}

\* updateVisibleWorkflowsBackgroundCmd: returnObj, keyed by the id of each
\* returned execution that is also an id of a captured row
StatusResult(seen, returnedIds, b) ==
    [id \in returnedIds \cap SeenIds(seen) |-> Info(id, b)]

\* updateVisibleWorkflowsBackgroundCmd: the 5 s tick fired.  With no running
\* row no call is made; else "WorkflowId IN (...)" returns some of them.
RunStatusSync(c) ==
    /\ proc = "running"
    /\ IsStatusCmd(c)
    /\ \E returnedIds \in SUBSET RunningIds(c.rows) :
          msgs' = msgs \cup {[type |-> "updateVisibleWorkflowsMsg",
                                workflowsMap |-> StatusResult(c.rows, returnedIds, backend)]}
    /\ cmds' = cmds \ {c}
    /\ UNCHANGED <<proc, cfVars, listVars, backend, reqVars, refetches, refetched>>
    /\ UNCHANGED restVars

\* either background command: its ListWorkflow call failed
SyncFails(c) ==
    /\ proc = "running"
    /\ ReadsRows(c)
    /\ RunningIds(c.rows) # {}
    /\ proc' = FatalList
    /\ cmds' = {} /\ msgs' = {}
    /\ UNCHANGED <<cfVars, listVars, backend, reqVars, refetches, refetched>>
    /\ UNCHANGED restVars

\* a slip the merge could make: rebuilding the slice from the matched rows only
MergeWorkflowsKeepsMatched(rows, workflowsMap) ==
    LET matched == SelectSeq(rows, LAMBDA r : r.workflow.id \in DOMAIN workflowsMap)
    IN  [i \in 1..Len(matched) |->
            [matched[i] EXCEPT !.workflow = workflowsMap[matched[i].workflow.id]]]

\* Update, case updateVisibleWorkflowsMsg: the loop over m.workflows
MergeWorkflows(rows, workflowsMap) ==
    [i \in 1..Len(rows) |->
        IF rows[i].workflow.id \in DOMAIN workflowsMap
        THEN [rows[i] EXCEPT !.workflow = workflowsMap[rows[i].workflow.id]]
        ELSE rows[i]]

\* Update, case updateVisibleWorkflowsMsg
ApplyUpdateVisibleWorkflowsMsg(msg) ==
    /\ proc = "running"
    /\ msg \in msgs /\ msg.type = "updateVisibleWorkflowsMsg"
    /\ msgs' = msgs \ {msg}
    /\ workflows' = MergeWorkflows(workflows, msg.workflowsMap)
    /\ cmds' = ShareRows(cmds, workflows')
                 \cup {[type |-> "updateVisibleWorkflowsBackgroundCmd",
                         rows |-> Seen(workflows'), live |-> TRUE]}
    /\ UNCHANGED <<proc, cfVars, cursor, page, nextPageTokenCache, backend, reqVars,
                   refetches, refetched>>
    /\ UNCHANGED restVars

\* the executions of returnedIds the attempts command gets an attempt for:
\* running on the backend with a pending activity
WithPending(returnedIds, b) ==
    {id \in returnedIds : ~b[id].closed /\ b[id].pending # <<>>}

\* (readAt in the message is history: the snapshot each running row's
\* execution was at when the command read the service.)
\* updateVisibleWorkflowAttempsBackgroundCmd: returnObj.  An execution
\* started under 10 minutes ago is skipped and a failed describe ends the
\* loop, so any of the executions with a pending activity may be missing;
\* the last pending activity's attempt stays.
AttemptsResult(seen, described, b) ==
    [id \in described \cap SeenIds(seen) |-> b[id].pending[Len(b[id].pending)]]

RunAttemptsSync(c) ==
    /\ proc = "running"
    /\ IsAttemptsCmd(c)
    /\ \E returnedIds \in SUBSET RunningIds(c.rows) :
       \E described \in SUBSET WithPending(returnedIds, backend) :
          msgs' = msgs \cup {[type |-> "updateVisibleWorkflowAttempsMsg",
                                updateMapping |-> AttemptsResult(c.rows, described, backend),
                                readAt |-> [id \in RunningIds(c.rows) |-> backend[id].ver]]}
    /\ cmds' = cmds \ {c}
    /\ UNCHANGED <<proc, cfVars, listVars, backend, reqVars, refetches, refetched>>
    /\ UNCHANGED restVars

\* a slip the merge could make: adding the reported attempt to the row's count
MergeAttemptsAdds(rows, updateMapping) ==
    [i \in 1..Len(rows) |->
        IF rows[i].workflow.id \in DOMAIN updateMapping
        THEN [rows[i] EXCEPT !.attempts = @ + updateMapping[rows[i].workflow.id]]
        ELSE rows[i]]

\* Update, case updateVisibleWorkflowAttempsMsg: the loop over m.workflows
MergeAttempts(rows, updateMapping) ==
    [i \in 1..Len(rows) |->
        IF rows[i].workflow.id \in DOMAIN updateMapping
        THEN [rows[i] EXCEPT !.attempts = updateMapping[rows[i].workflow.id]]
        ELSE rows[i]]

\* Update, case updateVisibleWorkflowAttempsMsg
ApplyUpdateVisibleWorkflowAttempsMsg(msg) ==
    /\ proc = "running"
    /\ msg \in msgs /\ msg.type = "updateVisibleWorkflowAttempsMsg"
    /\ msgs' = msgs \ {msg}
    /\ workflows' = MergeAttempts(workflows, msg.updateMapping)
    /\ cmds' = ShareRows(cmds, workflows')
                 \cup {[type |-> "updateVisibleWorkflowAttempsBackgroundCmd",
                         rows |-> Seen(workflows'), live |-> TRUE]}
    /\ UNCHANGED <<proc, cfVars, cursor, page, nextPageTokenCache, backend, reqVars,
                   refetches, refetched>>
    /\ UNCHANGED restVars

\* ----------------------------------------------------------------- backend
PendingValues == {<<>>} \cup {<<n>> : n \in 1..MaxAttempt}

\* the service moves an execution on: a new snapshot, which may close it
\* and changes its pending activities
BackendAdvance(id) ==
    /\ proc = "running"
    /\ refetches + Advances(backend) < MaxListEvents
    /\ \E closed \in {backend[id].closed, TRUE}, pending \in PendingValues :
          /\ closed => pending = <<>>
          /\ backend' = [backend EXCEPT ![id] =
                            [ver |-> @.ver + 1, closed |-> closed, pending |-> pending]]
    /\ UNCHANGED <<proc, cfVars, listVars, msgs, cmds, reqVars, refetches, refetched>>
    /\ UNCHANGED restVars

\* ------------------------------------------------------------ cursor keys
\* an Up that does not stop at the first row
KeyUpPastTop ==
    /\ proc = "running"
    /\ SearchBlurred
    /\ focusStack = <<>>
    /\ cursor' = cursor - 1
    /\ UNCHANGED <<proc, cfVars, workflows, page, nextPageTokenCache, backend, msgs, cmds,
                   reqVars, refetches, refetched>>
    /\ UNCHANGED restVars

\* Update, tea.KeyMsg, keys.Up / keys.Down: reached with an empty stack only
KeyUp ==
    /\ proc = "running"
    /\ SearchBlurred
    /\ focusStack = <<>>
    /\ cursor' = IF cursor > 0 THEN cursor - 1 ELSE cursor
    /\ UNCHANGED <<proc, cfVars, workflows, page, nextPageTokenCache, backend, msgs, cmds,
                   reqVars, refetches, refetched>>
    /\ UNCHANGED restVars

KeyDown ==
    /\ proc = "running"
    /\ SearchBlurred
    /\ focusStack = <<>>
    /\ cursor' = IF cursor < Len(workflows) - 1 THEN cursor + 1 ELSE cursor
    /\ UNCHANGED <<proc, cfVars, workflows, page, nextPageTokenCache, backend, msgs, cmds,
                   reqVars, refetches, refetched>>
    /\ UNCHANGED restVars

\* ------------------------------------------------------------- focus stack
FatalDescribe == "Failed to describe workflow"
PanicIndex == "panic: index out of range"
PanicNil == "panic: nil pointer dereference"

\* GetWorkflowHistory: "a" has started the child "b", which runs an activity
History(id) ==
    IF id = "a"
    THEN <<HistoryEvent(1, T_WorkflowExecutionStarted, 0, "{}", "", ""),
           HistoryEvent(2, T_WorkflowTaskScheduled, 0, "", "", ""),
           HistoryEvent(3, T_StartChildWorkflowExecutionInitiated, 0, "{}", "ChildType", ""),
           HistoryEvent(4, T_ChildWorkflowExecutionStarted, 3, "", "", "b")>>
    ELSE <<HistoryEvent(1, T_WorkflowExecutionStarted, 0, "{}", "", ""),
           HistoryEvent(2, T_ActivityTaskScheduled, 0, "{}", "act", ""),
           HistoryEvent(3, T_ActivityTaskStarted, 2, "", "", "")>>

\* DescribeWorkflowExecution(...).GetPendingActivities()
PendingOf(b, id) ==
    [i \in 1..Len(b[id].pending) |-> PendingActivityInfo("act", b[id].pending[i])]

\* compactHistoryStackItem
StackItem(workflowId, runId, ch) ==
    [workflowId |-> workflowId, runId |-> runId, compactHistory |-> ch]

\* history: the executions of the frames of a stack, bottom first
FrameIds(stack) ==
    [i \in 1..Len(stack) |-> [workflowId |-> stack[i].workflowId, runId |-> stack[i].runId]]

\* pushes asked for and not yet applied
IsFocusCmd(c) == c.type = "setFocusedWorkflowCmd"
IsFocusMsg(msg) == msg.type = "setFocusedWorkflowMsg"
FocusInFlight ==
    Cardinality({c \in cmds : IsFocusCmd(c)}) + Cardinality({msg \in msgs : IsFocusMsg(msg)})

\* m.setFocusedWorkflowCmd(workflowId, runId); from is history: the stack
\* the key was pressed on
SetFocusedWorkflowCmd(workflowId, runId) ==
    [type |-> "setFocusedWorkflowCmd", workflowId |-> workflowId, runId |-> runId,
     from |-> FrameIds(focusStack)]

\* Update, tea.KeyMsg, keys.FocusWorkflow: reached with an empty stack only
KeyFocusWorkflow ==
    /\ proc = "running"
    /\ SearchBlurred
    /\ focusStack = <<>>
    /\ Len(focusStack) + FocusInFlight < MaxDepth
    /\ cmds' = IF cursor < Len(workflows)
               THEN cmds \cup {SetFocusedWorkflowCmd(RowAtCursor.workflow.id,
                                                     RowAtCursor.workflow.run)}
               ELSE cmds
    /\ UNCHANGED <<proc, cfVars, listVars, backend, msgs, reqVars, refetches, refetched>>
    /\ UNCHANGED restVars

\* setFocusedWorkflowCmd: describe and history answered, the history is compacted
RunSetFocused(c) ==
    /\ proc = "running"
    /\ IsFocusCmd(c)
    /\ LET outcome == createCompactHistory(History(c.workflowId),
                                           PendingOf(backend, c.workflowId))
       IN  IF outcome.ok
           THEN /\ msgs' = msgs \cup {[type |-> "setFocusedWorkflowMsg",
                                       compactedHistoryStackItem |->
                                           StackItem(c.workflowId, c.runId,
                                                     outcome.compactHistory),
                                       from |-> c.from]}
                /\ cmds' = cmds \ {c}
                /\ proc' = proc
           ELSE /\ proc' \in {PanicIndex, PanicNil}
                /\ cmds' = {} /\ msgs' = {}
    /\ UNCHANGED <<cfVars, listVars, backend, reqVars, refetches, refetched>>
    /\ UNCHANGED restVars

\* setFocusedWorkflowCmd: the describe call or a history page failed
SetFocusedFails(c) ==
    /\ proc = "running"
    /\ IsFocusCmd(c)
    /\ proc' \in {FatalDescribe, FatalHistory}
    /\ cmds' = {} /\ msgs' = {}
    /\ UNCHANGED <<cfVars, listVars, backend, reqVars, refetches, refetched>>
    /\ UNCHANGED restVars

\* a push that leaves the cursor where it was
ApplySetFocusedKeepsCursor(msg) ==
    /\ proc = "running"
    /\ msg \in msgs /\ IsFocusMsg(msg)
    /\ msgs' = msgs \ {msg}
    /\ focusStack' = Append(focusStack, msg.compactedHistoryStackItem)
    /\ UNCHANGED <<proc, cfVars, listVars, backend, cmds, reqVars, refetches, refetched>>
    /\ UNCHANGED <<parentWorkflowMode, focusCursor, upToDateWorkflowCount, compactVars, queryVars, callVars>>

\* Update, case setFocusedWorkflowMsg
ApplySetFocusedWorkflowMsg(msg) ==
    /\ proc = "running"
    /\ msg \in msgs /\ IsFocusMsg(msg)
    /\ msgs' = msgs \ {msg}
    /\ focusCursor' = 0
    /\ focusStack' = Append(focusStack, msg.compactedHistoryStackItem)
    /\ UNCHANGED <<proc, cfVars, listVars, backend, cmds, reqVars, refetches, refetched>>
    /\ UNCHANGED <<parentWorkflowMode, upToDateWorkflowCount, compactVars, queryVars, callVars>>

getCurrentHistoryStackItem == focusStack[Len(focusStack)]

\* a slice sorted the other way round, smallest first
SliceAscending(ch) ==
    LET n == Cardinality(DOMAIN ch)
        order == CHOOSE s \in [1..n -> DOMAIN ch] :
                    \A i, j \in 1..n :
                        i < j => ch[s[i]].events[1].id < ch[s[j]].events[1].id
    IN  [i \in 1..n |-> ch[order[i]]]

\* getCurrentCompactHistorySlice: the items of the top frame, sorted by the
\* id of their first event, largest first
SliceOf(ch) ==
    LET n == Cardinality(DOMAIN ch)
        order == CHOOSE s \in [1..n -> DOMAIN ch] :
                    \A i, j \in 1..n :
                        i < j => ch[s[i]].events[1].id > ch[s[j]].events[1].id
    IN  [i \in 1..n |-> ch[order[i]]]
getCurrentCompactHistorySlice == SliceOf(getCurrentHistoryStackItem.compactHistory)

\* UpdateFocusedModeState, keys.FocusChildWorkflow
KeyFocusChildWorkflow ==
    /\ proc = "running"
    /\ SearchBlurred
    /\ focusStack # <<>>
    /\ Len(focusStack) + FocusInFlight < MaxDepth
    /\ LET slice == getCurrentCompactHistorySlice
       IN  IF Len(slice) < 2
           THEN UNCHANGED <<proc, cmds, msgs>>
           ELSE IF focusCursor >= Len(slice) \/ Len(slice[focusCursor + 1].events) < 2
           THEN proc' = PanicIndex /\ cmds' = {} /\ msgs' = {}
           ELSE LET secondHistoryEvent == slice[focusCursor + 1].events[2]
                IN  /\ cmds' = IF secondHistoryEvent.type = T_ChildWorkflowExecutionStarted
                               THEN cmds \cup {SetFocusedWorkflowCmd(secondHistoryEvent.child,
                                                   RunOf(secondHistoryEvent.child))}
                               ELSE cmds
                    /\ UNCHANGED <<proc, msgs>>
    /\ UNCHANGED <<cfVars, listVars, backend, reqVars, refetches, refetched>>
    /\ UNCHANGED restVars

\* a back key that drops the oldest frame
KeyBackBottom ==
    /\ proc = "running"
    /\ SearchBlurred
    /\ focusStack # <<>>
    /\ focusStack' = Tail(focusStack)
    /\ focusCursor' = 0
    /\ UNCHANGED <<proc, cfVars, listVars, backend, msgs, cmds, reqVars, refetches, refetched>>
    /\ UNCHANGED <<parentWorkflowMode, upToDateWorkflowCount, compactVars, queryVars, callVars>>

\* UpdateFocusedModeState, keys.Back
KeyBack ==
    /\ proc = "running"
    /\ SearchBlurred
    /\ focusStack # <<>>
    /\ focusStack' = SubSeq(focusStack, 1, Len(focusStack) - 1)
    /\ focusCursor' = 0
    /\ UNCHANGED <<proc, cfVars, listVars, backend, msgs, cmds, reqVars, refetches, refetched>>
    /\ UNCHANGED <<parentWorkflowMode, upToDateWorkflowCount, compactVars, queryVars, callVars>>

\* UpdateFocusedModeState, keys.Up / keys.Down
FocusKeyUp ==
    /\ proc = "running"
    /\ SearchBlurred
    /\ focusStack # <<>>
    /\ focusCursor' = IF focusCursor > 0 THEN focusCursor - 1 ELSE focusCursor
    /\ UNCHANGED <<proc, cfVars, listVars, backend, msgs, cmds, reqVars, refetches, refetched>>
    /\ UNCHANGED <<parentWorkflowMode, focusStack, upToDateWorkflowCount, compactVars, queryVars, callVars>>

\* a Down that does not stop at the last record
FocusKeyDownPastEnd ==
    /\ proc = "running"
    /\ SearchBlurred
    /\ focusStack # <<>>
    /\ focusCursor' = focusCursor + 1
    /\ UNCHANGED <<proc, cfVars, listVars, backend, msgs, cmds, reqVars, refetches, refetched>>
    /\ UNCHANGED <<parentWorkflowMode, focusStack, upToDateWorkflowCount, compactVars, queryVars, callVars>>

FocusKeyDown ==
    /\ proc = "running"
    /\ SearchBlurred
    /\ focusStack # <<>>
    /\ focusCursor' =
          IF focusCursor < Cardinality(DOMAIN getCurrentHistoryStackItem.compactHistory) - 1
          THEN focusCursor + 1 ELSE focusCursor
    /\ UNCHANGED <<proc, cfVars, listVars, backend, msgs, cmds, reqVars, refetches, refetched>>
    /\ UNCHANGED <<parentWorkflowMode, focusStack, upToDateWorkflowCount, compactVars, queryVars, callVars>>

\* ------------------------------------------------------- compaction pass
\* the variables of the program a pass of createCompactHistory does not touch
modelVars ==
    <<cfVars, listVars, backend, reqVars, refetches, refetched, navVars,
      upToDateWorkflowCount, queryVars, callVars>>

\* createCompactHistory is entered: compactedHistory := make(compactedHistory)
CompactEnter(run) ==
    [run |-> run, pos |-> 0, status |-> "running", compactHistory |-> EmptyHistory,
     outcomes |-> compaction.outcomes]

\* one pass of the loop: the case of the next event is applied
CompactStep ==
    /\ proc = "running"
    /\ compaction.status = "running"
    /\ compaction.pos < Len(historyList)
    /\ ~Faults(compaction.compactHistory, historyList[compaction.pos + 1])
    /\ compaction' =
          [compaction EXCEPT
              !.pos = @ + 1,
              !.compactHistory =
                  CompactEvent(@, historyList[compaction.pos + 1], pendingActivities)]
    /\ UNCHANGED <<proc, cmds, msgs, modelVars, historyList, pendingActivities>>

\* one pass of the loop: the case of the next event panics, on
\* GetPayloads()[0] of nil payloads or on the nil item of a missing key
CompactFault ==
    /\ proc = "running"
    /\ compaction.status = "running"
    /\ compaction.pos < Len(historyList)
    /\ LET ev == historyList[compaction.pos + 1]
       IN  /\ Faults(compaction.compactHistory, ev)
           /\ proc' = IF ev.type = T_ActivityTaskCompleted /\ ev.data = ""
                      THEN PanicIndex ELSE PanicNil
    /\ cmds' = {} /\ msgs' = {}
    /\ compaction' =
          [compaction EXCEPT
              !.status = "panic",
              !.compactHistory = EmptyHistory,
              !.outcomes = Append(@, [ok |-> FALSE, compactHistory |-> EmptyHistory])]
    /\ UNCHANGED <<modelVars, historyList, pendingActivities>>

\* the loop is over: return compactedHistory
CompactReturn ==
    /\ proc = "running"
    /\ compaction.status = "running"
    /\ compaction.pos = Len(historyList)
    /\ compaction' =
          [compaction EXCEPT
              !.status = "returned",
              !.outcomes = Append(@, [ok |-> TRUE, compactHistory |-> compaction.compactHistory])]
    /\ UNCHANGED <<proc, cmds, msgs, modelVars, historyList, pendingActivities>>

\* the execution is focused again and the service returns the same history
\* and pending activities: createCompactHistory is called on them again
CompactAgain ==
    /\ proc = "running"
    /\ compaction.status = "returned"
    /\ compaction.run < MaxRuns
    /\ compaction' = CompactEnter(compaction.run + 1)
    /\ UNCHANGED <<proc, cmds, msgs, modelVars, historyList, pendingActivities>>

\* setFocusedWorkflowCmd has fetched any history and pending activities and
\* enters createCompactHistory
CompactInit ==
    /\ InitProgram
    /\ historyList \in Histories
    /\ pendingActivities \in PendingSnapshots
    /\ compaction = [run |-> 1, pos |-> 0, status |-> "running",
                     compactHistory |-> EmptyHistory, outcomes |-> <<>>]
    /\ activeSearchParams = InitialSearchParams
    /\ queryString = <<>>
    /\ SearchBlurred
    /\ NoCalls

\* ---------------------------------------------------------- query string
\* the search modes: WORKFLOWTYPE, WORKFLOWID, EXECUTIONSTATUS
SearchModes == DOMAIN InitialSearchParams

\* a query string is the sequence of its pieces: fixed words, and the
\* fmt.Sprintf("%s = '%s'", searchMode, searchValue) of a mode and a value
Word(w) == [kind |-> w, mode |-> "", value |-> ""]
Equality(mode, searchValue) == [kind |-> " = ", mode |-> mode, value |-> searchValue]

\* strings.Join(elems, sep)
RECURSIVE Join(_, _)
Join(elems, sep) ==
    IF Len(elems) = 0 THEN <<>>
    ELSE IF Len(elems) = 1 THEN <<elems[1]>>
    ELSE <<elems[1], sep>> \o Join(Tail(elems), sep)

querySegments(mode, searchValues) ==
    [i \in 1..Len(searchValues) |-> Equality(mode, searchValues[i])]

queryGroupString(mode, searchValues) ==
    <<Word("(")>> \o Join(querySegments(mode, searchValues), Word(" OR "))
        \o <<Word(")")>>

\* a group appended with no " AND " in front of it
AppendGroupBare(q, group) == q \o group

\* one pass of the loop of constructQueryString for a mode with values
AppendGroup(q, group) == (IF q # <<>> THEN q \o <<Word(" AND ")>> ELSE q) \o group

\* the loop of constructQueryString over the modes in the order the map
\* iteration takes them, from the i-th on
RECURSIVE QueryFrom(_, _, _, _)
QueryFrom(q, params, order, i) ==
    IF i > Len(order) THEN q
    ELSE IF Len(params[order[i]]) = 0 THEN QueryFrom(q, params, order, i + 1)
    ELSE QueryFrom(AppendGroup(q, queryGroupString(order[i], params[order[i]])),
                   params, order, i + 1)

constructQueryString(params, parent, order) ==
    QueryFrom(IF parent THEN <<Word("ParentWorkflowId is null")>> ELSE <<>>,
              params, order, 1)

\* the orders in which a range over the map can visit its keys
IterationOrders(params) ==
    {order \in [1..Cardinality(DOMAIN params) -> DOMAIN params] :
        \A mode \in DOMAIN params : \E i \in DOMAIN order : order[i] = mode}

\* View, renderHeader: the query string is built for the header
RenderHeader ==
    /\ proc = "running"
    /\ focusStack = <<>>
    /\ \E order \in IterationOrders(activeSearchParams) :
          queryString' = constructQueryString(activeSearchParams, parentWorkflowMode, order)
    /\ UNCHANGED <<proc, cmds, msgs, cfVars, listVars, backend, reqVars, refetches,
                   refetched, navVars, upToDateWorkflowCount, compactVars,
                   activeSearchParams, searchMode, callVars>>

\* the values typed into the search prompt
SearchValues == {"a", "b"}

\* the maps the search prompt and the clear key can leave: the clear key
\* makes a map with no mode, enter appends a value to the list of a mode
SearchParamSets ==
    UNION {[modes -> UNION {[1..n -> SearchValues] : n \in 0..MaxValues}] :
              modes \in SUBSET SearchModes}

\* the program with any search filters entered
QueryInit ==
    /\ InitProgram
    /\ historyList = <<>>
    /\ pendingActivities = <<>>
    /\ compaction = NoCompaction
    /\ activeSearchParams \in SearchParamSets
    /\ queryString = <<>>
    /\ SearchBlurred
    /\ NoCalls

\* ------------------------------------------------------------ relative time
\* a time.Time: the instant in seconds, and the location it is shown in
Time(sec, loc) == [sec |-> sec, loc |-> loc]

\* t.Local(): the same instant, shown in the local zone
Local(t) == [t EXCEPT !.loc = "Local"]

\* t1.Sub(t2): a time.Duration, here in whole seconds
Sub(t1, t2) == t1.sec - t2.sec

\* fmt.Sprintf("%d <unit> ago", n)
Ago(n, unit) == <<n, unit>>

\* utils.go, getRelativeTimeDiff.  The comparisons are on diff.Seconds(),
\* diff.Minutes() and diff.Hours(); past the first one diff is positive, so
\* the int() conversions round down.
getRelativeTimeDiff(t1, t2) ==
    LET diff == Sub(Local(t1), Local(t2))
    IN  IF diff < 60 THEN Ago(diff, " sec ago")
        ELSE IF diff < 60 * 60 THEN Ago(diff \div 60, " min ago")
        ELSE IF diff < 24 * 3600 THEN Ago(diff \div 3600, " h ago")
        ELSE IF diff < 24 * 30 * 3600 THEN Ago(diff \div (24 * 3600), " d ago")
        ELSE IF diff < 24 * 30 * 12 * 3600 THEN Ago(diff \div (24 * 30 * 3600), " mon ago")
        ELSE Ago(diff \div (24 * 30 * 12 * 3600), " years ago")

\* the instants handed to it: whole days, a day and a little, and a year on
Instants ==
    {Time(d * 24 * 3600 + s, "UTC") : d \in (0..MaxDays) \cup {370, 740}, s \in {0, 59, 3600}}

\* a caller (the row renderer, the test) holds two instants
TimeInit ==
    /\ InitProgram
    /\ historyList = <<>>
    /\ pendingActivities = <<>>
    /\ compaction = NoCompaction
    /\ activeSearchParams = InitialSearchParams
    /\ queryString = <<>>
    /\ SearchBlurred
    /\ resetRequest = <<>>
    /\ actedOn = [r \in Reqs |-> NoExecution]
    /\ \E t1 \in Instants, t2 \in Instants :
          timeDiff = [t1 |-> t1, t2 |-> t2, text |-> NotCalled]

\* and calls getRelativeTimeDiff(t1, t2)
CallGetRelativeTimeDiff ==
    /\ proc = "running"
    /\ timeDiff.text = NotCalled
    /\ timeDiff' = [timeDiff EXCEPT !.text = getRelativeTimeDiff(timeDiff.t1, timeDiff.t2)]
    /\ UNCHANGED <<proc, cmds, msgs, cfVars, listVars, backend, reqVars, refetches,
                   refetched, navVars, upToDateWorkflowCount, compactVars,
                   queryVars, resetRequest, actedOn>>

\* ----------------------------------------------------------------- restart
\* the types restartWorkflowCmd looks for
ResetPointTypes == {T_WorkflowTaskCompleted, T_WorkflowTaskTimedOut, T_WorkflowTaskFailed}

\* restartWorkflowCmd, the loop over the history iterator from the i-th
\* event on: every event of a matching type is assigned to eventId, the
\* break leaves the switch and the loop goes on
RECURSIVE ScanEventId(_, _, _)
ScanEventId(history, i, eventId) ==
    IF i > Len(history) THEN eventId
    ELSE ScanEventId(history, i + 1,
                     IF history[i].type \in ResetPointTypes THEN history[i].id ELSE eventId)

\* the closure of restartWorkflowCmd: log.Fatalf if a page of the history
\* cannot be read or no event was found, else the reset request is sent,
\* which the service can refuse
RunRestart ==
    /\ proc = "running"
    /\ resetRequest = <<>>
    /\ LET eventId == ScanEventId(historyList, 1, 0)
       IN  \/ /\ historyList # <<>>
              /\ proc' = FatalHistory
              /\ cmds' = {} /\ msgs' = {}
              /\ UNCHANGED resetRequest
           \/ IF eventId = 0
              THEN /\ proc' = FatalNoEvent
                   /\ cmds' = {} /\ msgs' = {}
                   /\ UNCHANGED resetRequest
              ELSE /\ resetRequest' = Append(resetRequest, [WorkflowTaskFinishEventId |-> eventId])
                   /\ \/ UNCHANGED <<proc, cmds, msgs>>
                      \/ proc' = FatalRestart /\ cmds' = {} /\ msgs' = {}
    /\ UNCHANGED <<cfVars, listVars, backend, reqVars, refetches, refetched, navVars,
                   upToDateWorkflowCount, compactVars, queryVars, timeDiff, actedOn>>

\* the confirmed restart of an execution with any bounded history
RestartInit ==
    /\ InitProgram
    /\ historyList \in Histories
    /\ pendingActivities = <<>>
    /\ compaction = NoCompaction
    /\ activeSearchParams = InitialSearchParams
    /\ queryString = <<>>
    /\ SearchBlurred
    /\ NoCalls

\* ------------------------------------------------------------ search prompt
\* cases.Title(language.English).String(value)
Title(value) == CASE value = "a" -> "A" [] value = "b" -> "B" [] OTHER -> value

\* append(m.activeSearchParams[mode], value): a missing key reads as nil
AppendParam(params, mode, value) ==
    [k \in DOMAIN params \cup {mode} |->
        IF k = mode
        THEN (IF mode \in DOMAIN params THEN params[mode] ELSE <<>>) \o <<value>>
        ELSE params[k]]

\* Update, tea.KeyMsg, handleSearchModeSelect: one of the three search keys
\* with the input blurred; no case of the switch matches these keys
KeySearchModeSelect(mode) ==
    /\ proc = "running"
    /\ SearchBlurred
    /\ searchMode' = mode
    /\ UNCHANGED <<proc, cfVars, listVars, backend, msgs, cmds, reqVars, refetches,
                   refetched, navVars, upToDateWorkflowCount, compactVars,
                   activeSearchParams, queryString, callVars>>

\* handleSearchUpdate, "enter": the text typed so far, any of SearchValues,
\* is accepted for the mode, the input is blurred, the list state is cleared
\* and a refetch is dispatched
SearchEnter(value) ==
    /\ proc = "running"
    /\ ~SearchBlurred
    /\ refetches + Advances(backend) < MaxListEvents
    /\ (searchMode \in DOMAIN activeSearchParams => Len(activeSearchParams[searchMode]) < MaxValues)
    /\ activeSearchParams' =
          AppendParam(activeSearchParams, searchMode,
                      IF searchMode = "ExecutionStatus" THEN Title(value) ELSE value)
    /\ searchMode' = ""
    /\ page' = 0
    /\ cursor' = 0
    /\ nextPageTokenCache' = clearListStateCache
    /\ refetches' = refetches + 1
    /\ cmds' = DetachCache(cmds)
                \cup {[RefetchCmd(0, parentWorkflowMode) EXCEPT !.cache = clearListStateCache]}
    /\ UNCHANGED <<proc, cfVars, workflows, backend, msgs, reqVars, refetched, navVars,
                   upToDateWorkflowCount, compactVars, queryString, callVars>>

\* handleSearchUpdate, "esc" or "ctrl+c": the input is blurred
SearchCancel ==
    /\ proc = "running"
    /\ ~SearchBlurred
    /\ searchMode' = ""
    /\ UNCHANGED <<proc, cfVars, listVars, backend, msgs, cmds, reqVars, refetches,
                   refetched, navVars, upToDateWorkflowCount, compactVars,
                   activeSearchParams, queryString, callVars>>

\* ---------------------------------------------------------- specifications
ConfirmationNext ==
    \/ KeyTerminateWorkflow
    \/ KeyRestartWorkflow
    \/ KeyYes
    \/ KeyNo
    \/ KeyUp
    \/ KeyDown
    \/ \E c \in cmds : InvokeAction(c)
    \/ \E c \in cmds : ActionReturns(c)
    \/ \E c \in cmds : ActionFails(c)
    \/ \E c \in cmds : ClearCompletionTick(c)
    \/ \E msg \in msgs : ApplyConfirmationFlowStateMsg(msg)

ListNext ==
    \/ KeyRefetchWorkflows
    \/ \E c \in cmds : RunRefetch(c)
    \/ \E c \in cmds : RefetchFails(c)
    \/ \E msg \in msgs : ApplyUpdateWorkflowsMsg(msg)
    \/ \E c \in cmds : RunStatusSync(c)
    \/ \E c \in cmds : RunAttemptsSync(c)
    \/ \E c \in cmds : SyncFails(c)
    \/ \E msg \in msgs : ApplyUpdateVisibleWorkflowsMsg(msg)
    \/ \E msg \in msgs : ApplyUpdateVisibleWorkflowAttempsMsg(msg)
    \/ \E id \in Ids : BackendAdvance(id)
    \/ \E c \in cmds, msg \in msgs : MapAccessFault(c, msg)

\* the first load of the list, which every run starts with
LoadNext ==
    \/ \E c \in cmds : RunRefetch(c)
    \/ \E c \in cmds : RefetchFails(c)
    \/ \E msg \in msgs : ApplyUpdateWorkflowsMsg(msg)

\* the confirmation flow over a loaded list
ConfirmationSpecNext == ConfirmationNext \/ LoadNext
ConfirmationSpec == Init /\ [][ConfirmationSpecNext]_vars

\* the same under the scheduling of the runtime: a dispatched command runs,
\* a backend call comes back, a timer fires, a sent message reaches Update
ConfirmationFairness ==
    /\ WF_vars(\E c \in cmds : InvokeAction(c))
    /\ WF_vars(\E c \in cmds : ActionReturns(c) \/ ActionFails(c))
    /\ WF_vars(\E c \in cmds : ClearCompletionTick(c))
    /\ WF_vars(\E msg \in msgs : ApplyConfirmationFlowStateMsg(msg))
ConfirmationLiveSpec == ConfirmationSpec /\ ConfirmationFairness

\* the list synchronizer: full refetch and the two background chains
ListSpec == Init /\ [][ListNext]_vars

\* paging and filtering of the list: every page key and the parents-only
\* key dispatch a full refetch
PageNext ==
    \/ KeyRefetchWorkflows
    \/ KeyNextPage
    \/ KeyPrevPage
    \/ KeyToggleParentWorkflowMode
    \/ \E c \in cmds : RunRefetch(c)
    \/ \E c \in cmds : RefetchFails(c)
    \/ \E msg \in msgs : ApplyUpdateWorkflowsMsg(msg)
    \/ \E c \in cmds, msg \in msgs : MapAccessFault(c, msg)

\* drilling into an execution and back out
FocusNext ==
    \/ KeyFocusWorkflow
    \/ KeyFocusChildWorkflow
    \/ KeyBack
    \/ FocusKeyUp
    \/ FocusKeyDown
    \/ KeyUp
    \/ KeyDown
    \/ \E c \in cmds : RunSetFocused(c)
    \/ \E c \in cmds : SetFocusedFails(c)
    \/ \E msg \in msgs : ApplySetFocusedWorkflowMsg(msg)

\* navigation: pages, parents-only mode and the focus stack
NavNext == PageNext \/ FocusNext
NavSpec == Init /\ [][NavNext]_vars

\* the background chains over a loaded list: status, attempts and counts
ChainNext ==
    \/ \E c \in cmds : RunStatusSync(c)
    \/ \E c \in cmds : RunAttemptsSync(c)
    \/ \E c \in cmds : SyncFails(c)
    \/ \E msg \in msgs : ApplyUpdateVisibleWorkflowsMsg(msg)
    \/ \E msg \in msgs : ApplyUpdateVisibleWorkflowAttempsMsg(msg)
    \/ \E c \in cmds : RunCountTick(c)
    \/ \E c \in cmds : RunCountFetch(c)
    \/ \E c \in cmds : CountFails(c)
    \/ \E msg \in msgs : ApplyUpdateWorkflowCountMsg(msg)
    \/ \E msg \in msgs : ApplyBackgroundUpdateWorkflowCountMsg(msg)
ChainSpec == Init /\ [][ChainNext \/ LoadNext]_vars

\* the list alone, paged and filtered
PageSpec == Init /\ [][PageNext]_vars

\* createCompactHistory over every bounded history
CompactNext ==
    \/ CompactStep
    \/ CompactFault
    \/ CompactReturn
    \/ CompactAgain
CompactSpec == CompactInit /\ [][CompactNext]_vars

\* the header rendered over any filters, parents-only mode switched
QueryNext ==
    \/ RenderHeader
    \/ KeyToggleParentWorkflowMode
QuerySpec == QueryInit /\ [][QueryNext]_vars

\* a confirmed terminate over a list that is walked and refetched meanwhile
TargetNext ==
    \/ KeyTerminateWorkflow
    \/ KeyYes
    \/ KeyDown
    \/ KeyRefetchWorkflows
    \/ \E c \in cmds : InvokeAction(c)
    \/ \E c \in cmds : ActionReturns(c)
    \/ \E msg \in msgs : ApplyConfirmationFlowStateMsg(msg)
    \/ LoadNext
TargetSpec == Init /\ [][TargetNext]_vars

\* the confirmation flow with the status search opened, committed and left
SearchNext ==
    \/ KeyTerminateWorkflow
    \/ KeyYes
    \/ KeyNo
    \/ KeySearchModeSelect("ExecutionStatus")
    \/ SearchEnter("a")
    \/ SearchCancel
    \/ \E c \in cmds : InvokeAction(c)
    \/ \E msg \in msgs : ApplyConfirmationFlowStateMsg(msg)
    \/ LoadNext
SearchSpec == Init /\ [][SearchNext]_vars

\* the keys that name the row under the cursor, over a list that is walked
\* and refetched; what they dispatch stays in flight
RowNext ==
    \/ KeyTerminateWorkflow
    \/ KeyRestartWorkflow
    \/ KeyFocusWorkflow
    \/ KeyUp
    \/ KeyDown
    \/ KeyRefetchWorkflows
    \/ LoadNext
RowSpec == Init /\ [][RowNext]_vars

\* restartWorkflowCmd over every bounded history
RestartSpec == RestartInit /\ [][RunRestart]_vars

\* getRelativeTimeDiff over every pair of instants
TimeSpec == TimeInit /\ [][CallGetRelativeTimeDiff]_vars

\* ================================================================== claims
WrappedFuncsOf(r) == {c \in cmds : c.type = "wrappedFunc" /\ c.bound.req = r}

\* C1: an "n" is answered only to the request awaiting confirmation, the
\* phase is NO_FLOW_RUNNING right after it, and the action bound by a
\* request answered "n" is never dispatched and never invoked.
C1_NoLeavesActionUninvoked ==
    /\ [][\A r \in Reqs :
            (answered[r] # "n" /\ answered'[r] = "n")
                => /\ cfState = AWAITING_CONFIRMATION /\ cfBound.req = r
                   /\ cfState' = NO_FLOW_RUNNING]_vars
    /\ [](\A r \in Reqs :
            answered[r] = "n" => invoked[r] = 0 /\ WrappedFuncsOf(r) = {})

\* C1 witness: request r was answered "n" and the flow is back to idle on it
C1_Witness ==
    \E r \in Reqs :
        answered[r] = "n" /\ cfState = NO_FLOW_RUNNING /\ cfBound.req = r

\* C2: a "y" is answered only in AWAITING_CONFIRMATION and makes the phase
\* EXECUTING_ACTION; while the process runs the action of a request answered
\* "y" is still waiting to be called or has been called exactly once; no
\* action is called more than once or without
\* that "y"; and the phase is ACTION_COMPLETED only for a request whose
\* action call has come back.
C2_YesInvokesOnce ==
    /\ [][\A r \in Reqs :
            (answered[r] # "y" /\ answered'[r] = "y")
                => /\ cfState = AWAITING_CONFIRMATION /\ cfBound.req = r
                   /\ cfState' = EXECUTING_ACTION]_vars
    /\ [](\A r \in Reqs :
            /\ invoked[r] <= 1 /\ returned[r] <= invoked[r]
            /\ invoked[r] > 0 => answered[r] = "y"
            /\ (answered[r] = "y" /\ proc = "running") =>
                  \/ invoked[r] = 1 /\ \A c \in WrappedFuncsOf(r) : c.stage = "called"
                  \/ invoked[r] = 0 /\ \E c \in WrappedFuncsOf(r) : c.stage = "queued")
    /\ [](cfState = ACTION_COMPLETED =>
            cfBound.req \in Reqs /\ invoked[cfBound.req] = 1 /\ returned[cfBound.req] = 1)

\* C2 witness: the flow shows the completion of a request answered "y"
C2_Witness ==
    /\ cfState = ACTION_COMPLETED
    /\ answered[cfBound.req] = "y"
    /\ returned[cfBound.req] = 1

AllowedPhaseChanges ==
    {<<NO_FLOW_RUNNING, AWAITING_CONFIRMATION>>,
     <<AWAITING_CONFIRMATION, NO_FLOW_RUNNING>>,
     <<AWAITING_CONFIRMATION, EXECUTING_ACTION>>,
     <<EXECUTING_ACTION, ACTION_COMPLETED>>,
     <<ACTION_COMPLETED, NO_FLOW_RUNNING>>}

\* C3: the phase changes only along Idle->Awaiting, Awaiting->Idle,
\* Awaiting->Executing, Executing->Completed, Completed->Idle.
C3_PhaseChangesAlongPath ==
    [][cfState' # cfState => <<cfState, cfState'>> \in AllowedPhaseChanges]_vars

IsRequest(msg) ==
    msg.type = "confirmationFlowStateMsg" /\ msg.state = AWAITING_CONFIRMATION

\* C4: a request whose key was pressed while the phase was not
\* NO_FLOW_RUNNING changes neither the phase nor the bound action and texts
\* when its message is applied.
C4_RequestWhileBusyIgnored ==
    [][\A msg \in msgs :
          (IsRequest(msg) /\ msg \notin msgs' /\ reqMadeIn[msg.bound.req] # NO_FLOW_RUNNING)
              => UNCHANGED cfVars]_vars

\* C5: whenever the phase is EXECUTING_ACTION and the call of the bound
\* action has come back, the phase eventually is ACTION_COMPLETED, and
\* whenever it is ACTION_COMPLETED it eventually is NO_FLOW_RUNNING.
C5_ExecutingLeadsToCompletedThenIdle ==
    /\ (cfState = EXECUTING_ACTION /\ cfBound.req \in Reqs /\ returned[cfBound.req] > 0)
          ~> (cfState = ACTION_COMPLETED)
    /\ (cfState = ACTION_COMPLETED) ~> (cfState = NO_FLOW_RUNNING)

\* C6: an error of the terminate or restart call leaves the process running.
C6_ActionErrorKeepsRunning ==
    proc \notin {FatalTerminate, FatalRestart}

\* C7: a failed list call leaves the process running.
C7_FetchErrorKeepsRunning ==
    proc # FatalList

\* the execution ids of the rows, in order
Shape(rows) == [i \in 1..Len(rows) |-> rows[i].workflow.id]

IsSyncResult(msg) ==
    msg.type \in {"updateVisibleWorkflowsMsg", "updateVisibleWorkflowAttempsMsg"}
NamedBy(msg) ==
    IF msg.type = "updateVisibleWorkflowsMsg" THEN DOMAIN msg.workflowsMap
    ELSE DOMAIN msg.updateMapping

\* C8: applying a status-sync or attempt-sync result keeps the number of
\* rows, their order and their execution ids and leaves every row the result
\* does not name as it was; a step that changes the rows' ids or order
\* applies a full-refetch result.
C8_SyncKeepsRows ==
    [][/\ \A msg \in msgs :
            (IsSyncResult(msg) /\ msg \notin msgs')
                => /\ Shape(workflows') = Shape(workflows)
                   /\ \A i \in 1..Len(workflows) :
                         workflows[i].workflow.id \notin NamedBy(msg)
                             => workflows'[i] = workflows[i]
       /\ Shape(workflows') # Shape(workflows)
            => \E msg \in msgs : msg.type = "updateWorkflowsMsg" /\ msg \notin msgs'
      ]_vars

\* C8 witness: of two rows a status sync has overwritten one with a newer
\* snapshot and left the other, which the backend has moved on too, alone
C8_Witness ==
    \E i, j \in 1..Len(workflows) :
        /\ i # j
        /\ workflows[i].workflow.ver > refetched[workflows[i].workflow.id]
        /\ workflows[j].workflow.ver = refetched[workflows[j].workflow.id]
        /\ workflows[j].workflow.ver < backend[workflows[j].workflow.id].ver

\* the sync results the two background commands can hand in for rows now
StatusResultsNow(rows) ==
    {StatusResult(Seen(rows), returnedIds, backend) :
        returnedIds \in SUBSET RunningIds(Seen(rows))}
AttemptsResultsNow(rows) ==
    {AttemptsResult(Seen(rows), described, backend) :
        described \in SUBSET WithPending(RunningIds(Seen(rows)), backend)}

\* C9: applying a background-sync result twice gives the rows that applying
\* it once gives: for the rows of every reachable state and every result in
\* flight or that a background command can produce in that state.
C9_MergeIdempotent ==
    /\ \A workflowsMap \in StatusResultsNow(workflows)
                \cup {msg.workflowsMap : msg \in {x \in msgs : x.type = "updateVisibleWorkflowsMsg"}} :
          MergeWorkflows(MergeWorkflows(workflows, workflowsMap), workflowsMap)
              = MergeWorkflows(workflows, workflowsMap)
    /\ \A updateMapping \in AttemptsResultsNow(workflows)
                \cup {msg.updateMapping : msg \in {x \in msgs : x.type = "updateVisibleWorkflowAttempsMsg"}} :
          MergeAttempts(MergeAttempts(workflows, updateMapping), updateMapping)
              = MergeAttempts(workflows, updateMapping)

\* C9 witness: a status result and an attempts result are in flight and
\* applying either changes the rows
C9_Witness ==
    /\ \E msg \in msgs :
          /\ msg.type = "updateVisibleWorkflowsMsg"
          /\ MergeWorkflows(workflows, msg.workflowsMap) # workflows
    /\ \E msg \in msgs :
          /\ msg.type = "updateVisibleWorkflowAttempsMsg"
          /\ MergeAttempts(workflows, msg.updateMapping) # workflows

\* C10: no row shows a snapshot older than the one the last applied full
\* refetch delivered for it.
C10_NoRowOlderThanRefetch ==
    \A i \in 1..Len(workflows) :
        workflows[i].workflow.ver >= refetched[workflows[i].workflow.id]

IsPrefix(s, t) == Len(s) <= Len(t) /\ SubSeq(t, 1, Len(s)) = s

\* a list-fetch result answers a request made for another page or another
\* parents-only mode than the loop now has
StaleFetch(msg) ==
    /\ msg.type = "updateWorkflowsMsg"
    /\ (msg.request.page # page \/ msg.request.parent # parentWorkflowMode)

\* a focus-push result was requested on a stack the user has since backed out of
StalePush(msg) ==
    /\ IsFocusMsg(msg)
    /\ ~IsPrefix(msg.from, FrameIds(focusStack))

\* C11: applying a list-fetch result requested before the page or the
\* filters changed leaves the rows and the token cache as they are, and
\* applying a focus-push result requested on a frame the user has backed out
\* of pushes no frame.
C11_StaleResultsDiscarded ==
    [][\A msg \in msgs :
          /\ (StaleFetch(msg) /\ msg \notin msgs')
                => workflows' = workflows /\ nextPageTokenCache' = nextPageTokenCache
          /\ (StalePush(msg) /\ msg \notin msgs') => focusStack' = focusStack]_vars

\* C12: the page index goes up by one only when the token cache holds a
\* non-empty token for the new page, and no list fetch for a page after the
\* first is sent with a token that is missing from the cache or empty.
C12_NextPageNeedsToken ==
    /\ [][page' = page + 1
            => /\ page' \in DOMAIN nextPageTokenCache
               /\ nextPageTokenCache[page'] # 0]_vars
    /\ [](\A msg \in msgs :
            (msg.type = "updateWorkflowsMsg" /\ msg.request.page >= 1)
                => msg.request.cached /\ msg.request.token # 0)

\* C13: a list-fetch result is entered into the token cache under the index
\* after the page it was fetched for, and changes no other entry.
C13_CacheEntryIsTokenOfPreviousPage ==
    [][\A msg \in msgs :
          (msg.type = "updateWorkflowsMsg" /\ msg \notin msgs' /\ proc' = "running")
              => nextPageTokenCache' =
                    ((msg.request.page + 1) :> msg.nextPageToken) @@ nextPageTokenCache]_vars

\* the step hands a new refetchWorkflowsCmd to the runtime
DispatchesRefetch == \E c \in cmds' \ cmds : IsRefetchCmd(c)

\* C14: a step that presses the refresh key, changes the page index or the
\* parents-only filter, or applies the completion of a destructive action
\* dispatches a full refetch.
C14_EventsDispatchRefetch ==
    [][/\ refetches' # refetches => DispatchesRefetch
       /\ (page' # page \/ parentWorkflowMode' # parentWorkflowMode) => DispatchesRefetch
       /\ \A msg \in msgs :
             (/\ msg.type = "confirmationFlowStateMsg" /\ msg.state = ACTION_COMPLETED
              /\ msg \notin msgs' /\ proc' = "running") => DispatchesRefetch]_vars

\* the repeating chains: the status sync, the attempts sync and one count
\* sync per status
Chains == {"status", "attempts"} \cup BackgroundCountStatuses

OnChainCmd(ch, c) ==
    CASE ch = "status" -> IsStatusCmd(c)
      [] ch = "attempts" -> IsAttemptsCmd(c)
      [] OTHER -> IsCountTickCmd(c) /\ c.executionStatus = ch
OnChainMsg(ch, msg) ==
    CASE ch = "status" -> msg.type = "updateVisibleWorkflowsMsg"
      [] ch = "attempts" -> msg.type = "updateVisibleWorkflowAttempsMsg"
      [] OTHER -> msg.type = "backgroundUpdateWorkflowCountMsg" /\ msg.executionStatus = ch

\* ticks armed or running, and results not yet applied, of a chain
TicksOf(ch, cs) == Cardinality({c \in cs : OnChainCmd(ch, c)})
ResultsOf(ch, ms) == Cardinality({msg \in ms : OnChainMsg(ch, msg)})

RowItemsShared ==
    \E c \in cmds, msg \in msgs :
        /\ ReadsRows(c) /\ c.live
        /\ msg.type = "updateVisibleWorkflowsMsg"
        /\ DOMAIN msg.workflowsMap \cap SeenIds(c.rows) # {}

\* a refetch command that still reads the loop's token cache while a list
\* result, whose case writes the cache, waits to be applied
TokenCacheShared ==
    \E c \in cmds, msg \in msgs :
        IsRefetchCmd(c) /\ c.live /\ msg.type = "updateWorkflowsMsg"

\* C16: no command in flight reads row items or the token cache that the
\* loop is about to write, and the process never ends on the runtime's
\* report of a concurrent map access.
C16_SingleOwner ==
    /\ proc # FatalMapAccess
    /\ proc = "running" => ~RowItemsShared /\ ~TokenCacheShared

\* the maps compaction has returned, and the one being built
ReturnedMaps ==
    {compaction.outcomes[i].compactHistory :
        i \in {j \in 1..Len(compaction.outcomes) : compaction.outcomes[j].ok}}
CompactedMaps == ReturnedMaps \cup {compaction.compactHistory}

\* the events of historyList with id k
EventsWithId(k) == {i \in 1..Len(historyList) : historyList[i].id = k}

\* C17: no event of the workflow-task family (scheduled, started,
\* completed, timed out, failed) is a member of a record of a compaction
\* output, and no record is keyed by the id of such an event.
C17_NoWorkflowTaskEvents ==
    \A ch \in CompactedMaps : \A k \in DOMAIN ch :
        /\ \A i \in 1..Len(ch[k].events) : ch[k].events[i].type \notin WorkflowTaskTypes
        /\ \A i \in EventsWithId(k) : historyList[i].type \notin WorkflowTaskTypes

\* a returned map with a record, of a history that has a workflow-task event
C17_Witness ==
    /\ compaction.status = "returned"
    /\ DOMAIN compaction.compactHistory # {}
    /\ \E i \in 1..Len(historyList) : historyList[i].type \in WorkflowTaskTypes

C19_RecordsShareOneKey ==
    \A ch \in CompactedMaps :
        /\ \A k \in DOMAIN ch :
              /\ Len(ch[k].events) >= 1
              /\ ch[k].events[1].id = k
              /\ ch[k].events[1].type \in OpeningTypes \cup DefaultTypes
              /\ \A i \in 2..Len(ch[k].events) :
                     /\ ch[k].events[i].type \in ContinuationTypes
                     /\ ch[k].events[i].ref = k
        /\ \A k1, k2 \in DOMAIN ch :
              k1 # k2 =>
                 \A i \in 1..Len(ch[k1].events), j \in 1..Len(ch[k2].events) :
                    ch[k1].events[i].id # ch[k2].events[j].id

\* a returned map with two records, one of them with a continuation
C19_Witness ==
    /\ compaction.status = "returned"
    /\ Cardinality(DOMAIN compaction.compactHistory) = 2
    /\ \E k \in DOMAIN compaction.compactHistory :
           Len(compaction.compactHistory[k].events) = 2

\* C20: when the loop passes a continuation event whose record exists, the
\* record under the event's back-reference gets the icon of the event's
\* case and the event at the end of its member list.
C20_ContinuationUpdatesRecord ==
    [][\A ev \in {historyList[i] : i \in {compaction.pos + 1} \cap DOMAIN historyList} :
          (/\ compaction.status = "running"
           /\ ev.type \in ContinuationTypes
           /\ ev.ref \in DOMAIN compaction.compactHistory
           /\ compaction' # compaction)
          => /\ compaction'.pos = compaction.pos + 1
             /\ ev.ref \in DOMAIN compaction'.compactHistory
             /\ compaction'.compactHistory[ev.ref].icon = ContinuationIcon(ev.type)
             /\ compaction'.compactHistory[ev.ref].events =
                   Append(compaction.compactHistory[ev.ref].events, ev)]_vars

\* the event the loop of createCompactHistory passes next, if any
NextEvents == {historyList[i] : i \in {compaction.pos + 1} \cap DOMAIN historyList}

\* a continuation event whose back-reference names no record
Orphaned(ev) ==
    ev.type \in ContinuationTypes /\ ev.ref \notin DOMAIN compaction.compactHistory

\* C21: when the loop passes a continuation event whose back-reference has
\* no record, the pass does not end in an unhandled fault: the process keeps
\* running, and the pass either skips the event or ends with an error.
C21_OrphanHandled ==
    [][\A ev \in NextEvents :
          (compaction.status = "running" /\ Orphaned(ev) /\ compaction' # compaction)
          => /\ proc' = "running"
             /\ \/ compaction' = [compaction EXCEPT !.pos = @ + 1]
                \/ compaction'.status = "error"]_vars

\* the content blocks of a map that come from events, not from the
\* pending-activity snapshot
EventBlocks(ch) ==
    [k \in DOMAIN ch |->
        Cardinality({i \in 1..Len(ch[k].eventsContent) :
                        ch[k].eventsContent[i].eventType # "Last Error"})]
BlockCount(ch) ==
    LET RECURSIVE Sum(_)
        Sum(ks) == IF ks = {} THEN 0
                   ELSE LET k == CHOOSE x \in ks : TRUE
                        IN  EventBlocks(ch)[k] + Sum(ks \ {k})
    IN  Sum(DOMAIN ch)

\* C22: when the loop passes an event whose record exists or is created, it
\* adds one content block if the event carries input, output or failure
\* data and none if it carries none, and it does not fault.
C22_BlockIffData ==
    [][\A ev \in NextEvents :
          (compaction.status = "running" /\ ~Orphaned(ev) /\ compaction' # compaction)
          => /\ proc' = "running"
             /\ ev.type \notin WorkflowTaskTypes =>
                   BlockCount(compaction'.compactHistory) =
                      BlockCount(compaction.compactHistory)
                         + (IF ev.data # "" THEN 1 ELSE 0)]_vars

\* the pending activities of the snapshot with the activity id of ev
PendingFor(ev) ==
    {i \in 1..Len(pendingActivities) : pendingActivities[i].activityId = ev.name}

\* the "Last Error" blocks of a record
LastErrors(item) ==
    {i \in 1..Len(item.eventsContent) : item.eventsContent[i].eventType = "Last Error"}

\* C23: the pending-activity snapshot is read only when an activity-scheduled
\* record is created. That record has the attempt count and last-failure
\* cause of the pending activity with the scheduled event's activity id, or
\* none when no id matches; every other record has neither, and no later
\* event changes them.
C23_PendingJoinedAtCreation ==
    \A ch \in CompactedMaps : \A k \in DOMAIN ch :
        LET ev == ch[k].events[1]
            matches == IF ev.type = T_ActivityTaskScheduled THEN PendingFor(ev) ELSE {}
        IN  IF matches = {}
            THEN ch[k].rowContent.attempt = 0 /\ LastErrors(ch[k]) = {}
            ELSE \E i \in matches :
                    /\ ch[k].rowContent.attempt = pendingActivities[i].attempt
                    /\ LastErrors(ch[k]) = {1}
                    /\ ch[k].eventsContent[1].eventData
                          = <<"cause", pendingActivities[i].cause>>

\* a returned map whose activity record took the attempt of the second
\* pending activity and then a continuation; a timer record beside it
C23_Witness ==
    /\ compaction.status = "returned"
    /\ Len(pendingActivities) = 2
    /\ \E k \in DOMAIN compaction.compactHistory :
          /\ compaction.compactHistory[k].events[1].type = T_ActivityTaskScheduled
          /\ compaction.compactHistory[k].rowContent.attempt = pendingActivities[2].attempt
          /\ Len(compaction.compactHistory[k].events) = 2
    /\ \E k \in DOMAIN compaction.compactHistory :
          compaction.compactHistory[k].events[1].type = T_TimerStarted

\* the i-th largest of a set of keys
KthLargest(S, i) == CHOOSE k \in S : Cardinality({x \in S : x > k}) = i - 1

\* the arrangements of the keys of a map that sort.Slice may leave: every
\* key once, and no item in front of one that the less function of
\* getCurrentCompactHistorySlice puts before it
SortedArrangements(ch) ==
    {s \in [1..Cardinality(DOMAIN ch) -> DOMAIN ch] :
        /\ \A k \in DOMAIN ch : \E i \in DOMAIN s : s[i] = k
        /\ \A i, j \in DOMAIN s :
              i < j => ~(ch[s[j]].events[1].id > ch[s[i]].events[1].id)}

\* C24: the slice of a frame lists its records in strictly descending order
\* of key, index i holding the record with the (i+1)-th largest key, and
\* every order the sort can leave is that one.
C24_SliceDescendingByKey ==
    \A ch \in ReturnedMaps :
        LET slice == SliceOf(ch)
        IN  /\ Len(slice) = Cardinality(DOMAIN ch)
            /\ \A i \in 1..Len(slice) : slice[i] = ch[KthLargest(DOMAIN ch, i)]
            /\ \A s \in SortedArrangements(ch) :
                  [i \in 1..Len(slice) |-> ch[s[i]]] = slice

\* a returned map with as many records as the history has events
C24_Witness ==
    /\ compaction.status = "returned"
    /\ Len(historyList) = MaxEvents
    /\ Cardinality(DOMAIN compaction.compactHistory) = MaxEvents
    /\ Len(SliceOf(compaction.compactHistory)) = MaxEvents

\* the pushes asked for and not yet applied
FocusPending == {c \in cmds : IsFocusCmd(c)} \cup {msg \in msgs : IsFocusMsg(msg)}

\* C25: the focus stack changes only by a push onto its top or by a pop of
\* its top frame, and a pop happens only on a non-empty stack.
C25_PopsOnlyTheTop ==
    [][focusStack' # focusStack =>
          \/ /\ Len(focusStack') = Len(focusStack) + 1
             /\ SubSeq(focusStack', 1, Len(focusStack)) = focusStack
          \/ /\ focusStack # <<>>
             /\ focusStack' = SubSeq(focusStack, 1, Len(focusStack) - 1)]_vars

\* the frame a drill was asked from has been popped while the push of the
\* child is still on its way
C25_Witness ==
    /\ proc = "running"
    /\ focusStack = <<>>
    /\ \E p \in FocusPending : p.from # <<>>

\* the record at the cursor of the top frame is a child record that has its
\* started continuation as second event
ChildStartedAtCursor ==
    /\ focusStack # <<>>
    /\ LET slice == getCurrentCompactHistorySlice
       IN  /\ focusCursor < Len(slice)
           /\ Len(slice[focusCursor + 1].events) >= 2
           /\ slice[focusCursor + 1].events[2].type = T_ChildWorkflowExecutionStarted

\* C26: applying the result of a push adds the pushed frame on top and puts
\* the cursor at 0; a drill on a record with its child-started continuation
\* dispatches a push of the child's execution id and run id; a pop lowers
\* the depth by exactly one.
C26_PushDrillPop ==
    /\ [][\A msg \in msgs :
             (IsFocusMsg(msg) /\ msg \notin msgs' /\ proc' = "running")
             => /\ focusStack' = Append(focusStack, msg.compactedHistoryStackItem)
                /\ focusCursor' = 0]_vars
    /\ [][\A c \in cmds' \ cmds :
             (IsFocusCmd(c) /\ focusStack # <<>>)
             => /\ ChildStartedAtCursor
                /\ c.workflowId =
                      getCurrentCompactHistorySlice[focusCursor + 1].events[2].child
                /\ c.runId = RunOf(c.workflowId)]_vars
    /\ [][(KeyFocusChildWorkflow /\ ChildStartedAtCursor
              /\ Len(getCurrentCompactHistorySlice) >= 2)
             => \E c \in cmds' \ cmds : IsFocusCmd(c)]_vars
    /\ [][KeyBack => Len(focusStack') = Len(focusStack) - 1]_vars

\* depth 2: the child's frame on top of its parent's, cursor at 0
C26_Witness ==
    /\ proc = "running"
    /\ Len(focusStack) = 2
    /\ focusStack[1].workflowId = "a"
    /\ focusStack[2].workflowId = "b" /\ focusStack[2].runId = RunOf("b")
    /\ focusCursor = 0

\* C27: a drill on a record that is not a child record with its started
\* continuation has no effect: no push is dispatched and the process does
\* not panic.
C27_DrillElsewhereIsNoOp ==
    [][(proc = "running" /\ focusStack # <<>> /\ ~ChildStartedAtCursor)
          => /\ proc' # PanicIndex
             /\ \A c \in cmds' \ cmds : ~IsFocusCmd(c)]_vars

\* the search modes of a map that have at least one accepted value
Filtered(params) == {mode \in DOMAIN params : Len(params[mode]) > 0}

\* the positions of a word in a query string
PositionsOf(q, w) == {i \in 1..Len(q) : q[i] = Word(w)}

\* from position i on, q holds the group of a mode: "(", one equality per
\* accepted value in the order accepted with " OR " between them, ")"
GroupAt(q, i, mode, values) ==
    /\ i + 2 * Len(values) <= Len(q)
    /\ q[i] = Word("(")
    /\ \A j \in 1..Len(values) : q[i + 2 * j - 1] = Equality(mode, values[j])
    /\ \A j \in 1..(Len(values) - 1) : q[i + 2 * j] = Word(" OR ")
    /\ q[i + 2 * Len(values)] = Word(")")

\* q is a filter expression for the accepted values and the mode
FilterExpression(q, params, parent) ==
    /\ \A mode \in Filtered(params) :
          Cardinality({i \in 1..Len(q) : GroupAt(q, i, mode, params[mode])}) = 1
    /\ Cardinality(PositionsOf(q, "(")) = Cardinality(Filtered(params))
    /\ PositionsOf(q, "ParentWorkflowId is null") = IF parent THEN {1} ELSE {}
    /\ \A i \in 1..Len(q) :
          \/ q[i] = Word("ParentWorkflowId is null")
          \/ /\ q[i] = Word(" AND ")
             /\ 1 < i /\ i < Len(q)
             /\ q[i - 1] \in {Word(")"), Word("ParentWorkflowId is null")}
             /\ q[i + 1] = Word("(")
          \/ \E mode \in Filtered(params), start \in 1..i :
                /\ GroupAt(q, start, mode, params[mode])
                /\ i <= start + 2 * Len(params[mode])
    /\ \A i \in 1..(Len(q) - 1) :
          q[i] \in {Word(")"), Word("ParentWorkflowId is null")}
             => q[i + 1] = Word(" AND ")
    /\ (Filtered(params) = {} /\ ~parent) => q = <<>>

\* C28: whatever order the map is ranged over, the query string has one
\* parenthesized group per search mode with accepted values, each the OR of
\* one equality per accepted value, the groups joined with AND, the
\* parents-only clause in front exactly in parents-only mode, and is empty
\* with no filter and the mode off; {WorkflowId: [a, b]} gives
\* (WorkflowId = 'a' OR WorkflowId = 'b').
C28_QueryStringGroups ==
    \A order \in IterationOrders(activeSearchParams) :
        LET q == constructQueryString(activeSearchParams, parentWorkflowMode, order)
        IN  /\ FilterExpression(q, activeSearchParams, parentWorkflowMode)
            /\ (Filtered(activeSearchParams) = {"WorkflowId"}
                   /\ activeSearchParams["WorkflowId"] = <<"a", "b">>
                   /\ ~parentWorkflowMode)
               => q = <<Word("("), Equality("WorkflowId", "a"), Word(" OR "),
                        Equality("WorkflowId", "b"), Word(")")>>

\* the header was rendered in parents-only mode over two filtered modes,
\* one of them with two values
C28_Witness ==
    /\ parentWorkflowMode
    /\ queryString # <<>>
    /\ queryString[1] = Word("ParentWorkflowId is null")
    /\ Cardinality(PositionsOf(queryString, "(")) = 2
    /\ PositionsOf(queryString, " OR ") # {}

\* the attempt count the pending activities of an execution call for
AttemptsOf(pending) == IF pending = <<>> THEN 0 ELSE pending[Len(pending)]

\* C29: once an attempts-sync result is applied, every running row the sync
\* read, whose execution has not moved since, shows 0 attempts if the
\* execution has no pending activity and the attempt of its pending
\* activity otherwise.
C29_AttemptsFollowPending ==
    [][\A msg \in msgs :
          (msg.type = "updateVisibleWorkflowAttempsMsg" /\ msg \notin msgs'
              /\ proc' = "running")
          => \A i \in 1..Len(workflows') :
                LET id == workflows'[i].workflow.id
                IN  (/\ id \in DOMAIN msg.readAt
                     /\ msg.readAt[id] = backend[id].ver
                     /\ ~backend[id].closed)
                    => workflows'[i].attempts = AttemptsOf(backend[id].pending)]_vars

\* the repeating count sync of a status has a tick or a result outstanding
CountChainRuns(status) == TicksOf(status, cmds) + ResultsOf(status, msgs) >= 1

\* C30: while the program runs with its background chains started, every
\* status the header shows a count for has a repeating count sync of its
\* own, a tick or a result of it being outstanding.
C30_ShownCountsAreSynced ==
    (proc = "running" /\ \E ch \in Chains : TicksOf(ch, cmds) + ResultsOf(ch, msgs) >= 1)
        => \A status \in temporalEnumStatusList : CountChainRuns(status)

\* ------------------------------------------------------------------ C31
\* the seconds of a whole day
Day == 24 * 3600

\* C31: when t2 is exactly d whole days after t1, 2 <= d < 30, the text
\* getRelativeTimeDiff(t1, t2) returns is "<d> days ago"
C31_DaysAgo ==
    \A d \in 2..29 :
        (timeDiff.text # NotCalled /\ timeDiff.t2.sec - timeDiff.t1.sec = d * Day)
            => timeDiff.text = Ago(d, " days ago")

\* ------------------------------------------------------------------ C32
\* the ids of the workflow-task completed, timed-out and failed events
ResetPoints(history) ==
    {history[i].id : i \in {j \in DOMAIN history : history[j].type \in ResetPointTypes}}

\* C32: for a history with at least one workflow-task completed, timed-out
\* or failed event, the event id restart sends in the reset request is the
\* smallest id among those events
C32_ResetsToFirstPoint ==
    \A k \in DOMAIN resetRequest :
        ResetPoints(historyList) # {}
            => \A id \in ResetPoints(historyList) :
                  resetRequest[k].WorkflowTaskFinishEventId <= id

\* ------------------------------------------------------------------ C33
\* a flow message that is no request: the tick of clearCompletionCmd or the
\* completion of an action
IsTickOrCompletion(msg) ==
    msg.type = "confirmationFlowStateMsg" /\ msg.state \in {NO_FLOW_RUNNING, ACTION_COMPLETED}

\* C33: while the phase is AWAITING_CONFIRMATION for a request, applying the
\* timer tick or the completion message of an earlier action changes neither
\* the phase nor the request that is pending: only 'y' or 'n' ends it
C33_PendingSurvivesEarlierAction ==
    [][\A msg \in msgs :
          (/\ IsTickOrCompletion(msg) /\ msg \notin msgs'
           /\ proc' = "running"
           /\ cfState = AWAITING_CONFIRMATION)
              => UNCHANGED cfVars]_vars

\* ------------------------------------------------------------------ C34
\* C34: the backend call of a confirmed request names the execution id and
\* run id of the row that was under the cursor when its key was pressed,
\* wherever the cursor is and whatever the rows are when it runs
C34_ActsOnPressedRow ==
    \A r \in Reqs :
        actedOn[r].called # <<>> => actedOn[r].called = actedOn[r].pressed

\* C34 witness: the call of a request has been made for the row its key was
\* pressed on while the row under the cursor is another one, or none
C34_Witness ==
    \E r \in Reqs :
        /\ actedOn[r].called # <<>>
        /\ actedOn[r].called = actedOn[r].pressed
        /\ \/ cursor >= Len(workflows)
           \/ RowAtCursor.workflow.id # actedOn[r].called[1]

\* ------------------------------------------------------------------ C37
\* C37: a step that changes the filter expression (here: the parents-only
\* mode) leaves the page index 0 and the token cache holding nothing but the
\* empty token of page 0, so that the fetch it dispatches sends no token of
\* the former expression
C37_ExpressionChangeResetsPaging ==
    [][(parentWorkflowMode' # parentWorkflowMode /\ proc' = "running")
          => /\ page' = 0
             /\ nextPageTokenCache' = clearListStateCache
             /\ \A c \in cmds' \ cmds : IsRefetchCmd(c) => TokenSent(c) = 0]_vars

\* ------------------------------------------------------------------ C35
\* C35: while the focus stack is non-empty no step changes the page index
\* or the parents-only mode and no key dispatches a list refetch
C35_FocusKeysStayInFocus ==
    [][(focusStack # <<>> /\ proc' = "running")
          => /\ page' = page
             /\ parentWorkflowMode' = parentWorkflowMode
             /\ refetches' = refetches]_vars

\* ------------------------------------------------------------------ C36
\* C36: while the search input is focused no step takes a 'y' or 'n' answer
\* and none dispatches the wrapper of a bound terminate / restart action
C36_SearchKeysStayInSearch ==
    [][(~SearchBlurred /\ proc' = "running")
          => /\ answered' = answered
             /\ \A c \in cmds' \ cmds : c.type # "wrappedFunc"]_vars

\* ------------------------------------------------------------------ C38
\* the focus commands among the commands in flight
RowCmds(cs) == {c \in cs : IsFocusCmd(c)}

TopRecords == Cardinality(DOMAIN getCurrentHistoryStackItem.compactHistory)

\* C39: with a non-empty focus stack whose top frame has a record, the focus
\* cursor is at least 0 and less than the number of records of the top
\* frame; and every step that pushes or pops a frame leaves the cursor 0
C39_FocusCursorInsideTopFrame ==
    /\ []((focusStack # <<>> /\ TopRecords > 0) => focusCursor \in 0..(TopRecords - 1))
    /\ [][Len(focusStack') # Len(focusStack) => focusCursor' = 0]_vars

\* C39 witness: Down has walked the cursor to the last record of a top frame
\* of several records
C39_Witness ==
    /\ proc = "running"
    /\ focusStack # <<>>
    /\ TopRecords > 1
    /\ focusCursor = TopRecords - 1

====
